---------------------------- MODULE Spec2Model ----------------------------
(***************************************************************************)
(* Model of the kata-containers agent RPC layer (src/agent/src/rpc.rs):    *)
(* the sandbox registry guarded by one tokio Mutex, the container          *)
(* lifecycle handlers, the WaitProcess exit synchronisation, the           *)
(* signal-all broadcast, the timed RemoveContainer and verify_cid.         *)
(***************************************************************************)
EXTENDS Integers, Sequences, FiniteSets, TLC

(***************************************************************************)
(* Bounds of the model.                                                    *)
(***************************************************************************)
MaxCidLen == 3
MaxPid == 2
MaxProcs == 2
MaxWaiters == 2
MaxCreates == 1
MaxRemoves == 1

MaxSignals == 1

MaxDestroys == 2

MaxOomCalls == 2

MaxEvents == 1

MaxCloses == 2

MaxIo == 2

MaxLen == 2

MaxHooks == 2

MaxFileLen == 3
MaxNs == 2
MaxChunks == 3
MaxRaceRemoves == 2

(***************************************************************************)
(* Characters.  A character is known by its Unicode class and by the       *)
(* number of bytes of its UTF-8 encoding: str::len() counts bytes,         *)
(* chars() yields characters.                                              *)
(***************************************************************************)
Alphabet == {"a", "9", "-", "/", "U+00E9"}

is_alphanumeric(ch) == ch \in {"a", "9", "U+00E9"}

Utf8Len(ch) == IF ch = "U+00E9" THEN 2 ELSE 1

IsAscii(ch) == Utf8Len(ch) = 1

RECURSIVE StrByteLen(_)
StrByteLen(s) == IF s = <<>> THEN 0 ELSE Utf8Len(Head(s)) + StrByteLen(Tail(s))

CidStrings == UNION {[1..n -> Alphabet] : n \in 0..MaxCidLen}

\* rpc.rs:131-149.  chars.next() takes the first character, id.len() is the
\* byte length, chars.all(..) runs over the remaining characters.
verify_cid(id) ==
    IF id = <<>> THEN FALSE
    ELSE /\ is_alphanumeric(Head(id))
         /\ StrByteLen(id) > 1
         /\ \A i \in 2..Len(id) :
               is_alphanumeric(id[i]) \/ id[i] \in {".", "-", "_"}

(***************************************************************************)
(* Helpers on maps with a dynamic domain (HashMap).                        *)
(***************************************************************************)
Put(f, k, v) == [x \in (DOMAIN f) \cup {k} |-> IF x = k THEN v ELSE f[x]]

Del(f, k) == [x \in (DOMAIN f) \ {k} |-> f[x]]

Range(s) == {s[i] : i \in DOMAIN s}

EmptyMap == [x \in {} |-> 0]


(***************************************************************************)
(* Request inputs.  Container ids and exec ids are strings (sequences of   *)
(* characters); the empty exec id names the container's init process.      *)
(***************************************************************************)
ValidCid == <<"a", "9">>

ReqCids == {ValidCid, <<"/">>}

EmptyEid == <<>>

ReqEids == {EmptyEid, <<"e">>}

ReqStorages == {<<>>, <<"m1">>}

ExitCodes == {1, 2}

Pids == 1..MaxPid

Waiters == 1..MaxWaiters

Creates == 1..MaxCreates

Removes == 1..MaxRemoves

Signals == 1..MaxSignals

Destroys == 1..MaxDestroys

OomCalls == 1..MaxOomCalls

Closes == 1..MaxCloses

Ios == 1..MaxIo

SIGTERM == 15

SIGKILL == 9

ReqSignals == {SIGTERM, SIGKILL}

\* Process::exit_code before the exit is recorded.
UnsetExitCode == 0

Free == <<"free", 0>>

NoRes == [kind |-> "none", code |-> 0, err |-> ""]

OkRes(v) == [kind |-> "ok", code |-> v, err |-> ""]

ErrRes(e) == [kind |-> "err", code |-> 0, err |-> e]

VARIABLES
    containers,        \* Sandbox.containers: cid -> container
    container_mounts,  \* Sandbox.container_mounts: cid -> mount points
    storages,          \* Sandbox.storages: mount point -> reference count
    lock,              \* holder of the Arc<Mutex<Sandbox>>, or Free
    cr,                \* CreateContainer calls
    rm,                \* RemoveContainer calls, each with its spawned task
    wt,                \* WaitProcess calls
    nextInst,          \* next process identity (history)
    nextCInst,         \* next container identity (history)
    pinfo,             \* history per process identity
    vid,               \* verify_cid: the input
    vres,              \* verify_cid: the result
    sg,                \* SignalProcess calls
    frozen,            \* containers (by identity) whose cgroup is frozen
    ds,                \* DestroySandbox calls
    sender,            \* Sandbox.sender: the one-shot shutdown sender, if not taken
    event_tx,          \* Sandbox.event_tx: TRUE while the OOM sender is held
    shutdowns,         \* times the shutdown signal was sent (history)
    oo,                \* GetOOMEvent calls
    event_rx,          \* holder of the Mutex around Sandbox.event_rx, or 0
    events,            \* OOM events queued in the channel
    allowed,           \* AGENT_CONFIG: the endpoints the agent may serve
    cl,                \* CloseStdin calls
    io,                \* ResizeTTY, WriteStdin and ReadStdout/ReadStderr calls
    tio                \* by process identity: its terminal and its streams

vars == <<containers, container_mounts, storages, lock, cr, rm, wt,
          nextInst, nextCInst, pinfo, vid, vres, sg, frozen,
          ds, sender, event_tx, shutdowns, oo, event_rx, events, allowed, cl,
          io, tio>>

\* The sandbox-level state: shutdown, OOM events and the configuration, and
\* the calls that only look a process up or use its streams.
sbx == <<ds, sender, event_tx, shutdowns, oo, event_rx, events, allowed, cl, io, tio>>

\* The calls on containers and processes, and the histories.
calls == <<cr, rm, wt, sg, nextInst, nextCInst, pinfo, vid, vres>>

(***************************************************************************)
(* Registry lookups (Sandbox and LinuxContainer methods used by rpc.rs).   *)
(***************************************************************************)
\* Pids of the kernel that no tracked, not yet reaped-by-waitpid process has.
FreePids ==
    Pids \ ({p \in Pids : \E c \in DOMAIN containers :
                 p \in DOMAIN containers[c].procs /\ ~containers[c].procs[p].exited}
            \cup {cr[k].pid : k \in DOMAIN cr})

\* Sandbox::find_container_process(cid, eid): the pids it may return
\* ({} when the lookup fails).  An empty eid names the init process; a
\* non-empty one the entries whose exec_id equals it.
find_container_process(cid, eid) ==
    IF cid \notin DOMAIN containers THEN {}
    ELSE LET ctr == containers[cid] IN
         IF eid = EmptyEid
         THEN {p \in DOMAIN ctr.procs : p = ctr.init_pid}
         ELSE {p \in DOMAIN ctr.procs : ctr.procs[p].exec_id = eid}

\* The process object with identity i, where it is still held by a table.
Holders(i) ==
    {h \in (DOMAIN containers) \X Pids :
        h[2] \in DOMAIN containers[h[1]].procs /\ containers[h[1]].procs[h[2]].inst = i}

\* The watch channel of process identity i is closed: its sender exit_tx was
\* taken when the exit was recorded, or the Process was dropped.
ExitChannelClosed(i) ==
    \A h \in Holders(i) : containers[h[1]].procs[h[2]].exited

\* The mpsc senders outliving the Process that held them.
SenderAliveAlways(w) == w \in Waiters

\* The mpsc sender of waiter w is alive: it sits in some process's exit_watchers.
SenderAlive(w) ==
    \E c \in DOMAIN containers : \E p \in DOMAIN containers[c].procs :
        w \in Range(containers[c].procs[p].watchers)

NewProcess(i, eid, isInit, hasRx) ==
    [inst |-> i, exec_id |-> eid, init |-> isInit, exited |-> FALSE,
     exit_code |-> UnsetExitCode, has_rx |-> hasRx, watchers |-> <<>>,
     parent_stdin |-> TRUE]

\* History of one process identity: the names a request finds it by, the
\* recorded exit, and what WaitProcess did to it.
NewPinfo(cid, eid) ==
    [cid |-> cid, eid |-> eid, exited |-> FALSE, code |-> UnsetExitCode,
     cleanups |-> 0, reaps |-> 0, reapedRunning |-> FALSE, changed |-> FALSE]

\* A call slot may start when the slots before it have started (the slots
\* are interchangeable).
MayStart(slots, k) ==
    /\ slots[k].pc = "idle"
    /\ IF k = 1 THEN TRUE ELSE slots[k - 1].pc # "idle"

\* The ttrpc status a handler returns.  A handler that builds its status
\* itself records the code; the error of a do_* body is wrapped as INTERNAL
\* (rpc.rs:715-718, 728-731, 742-745, 755-758, 768-771, 781-783).
ttrpc_code(res) ==
    IF res.kind = "ok" THEN "OK"
    ELSE IF res.err \in {"UNIMPLEMENTED", "INVALID_ARGUMENT", "UNAVAILABLE"} THEN res.err
    ELSE "INTERNAL"

(***************************************************************************)
(* The endpoint allow-list (rpc.rs:107-120).                               *)
(***************************************************************************)
\* req.descriptor().name() of the modelled handlers.
Endpoints ==
    {"CreateContainerRequest", "RemoveContainerRequest", "ExecProcessRequest",
     "SignalProcessRequest", "WaitProcessRequest", "DestroySandboxRequest",
     "GetOOMEventRequest", "CloseStdinRequest", "TtyWinResizeRequest",
     "WriteStreamRequest", "ReadStreamRequest"}

\* AgentConfig::is_allowed_endpoint.
is_allowed_endpoint(name) == name \in allowed

\* is_allowed! with the handler body that follows it.
is_allowed_skipped(name, slots, k, others, handler) == handler

\* is_allowed!(req), the first statement of every handler, and the handler
\* body after it: a name that is not allowed returns UNIMPLEMENTED at once.
\* `slots` holds the call, `others` the calls of the other kinds.
is_allowed(name, slots, k, others, handler) ==
    IF is_allowed_endpoint(name)
    THEN handler
    ELSE /\ MayStart(slots, k)
         /\ slots' = [slots EXCEPT ![k].pc = "done", ![k].res = ErrRes("UNIMPLEMENTED")]
         /\ UNCHANGED others
         /\ UNCHANGED <<containers, container_mounts, storages, lock, nextInst,
                        nextCInst, pinfo, vid, vres, frozen, sender, event_tx,
                        shutdowns, event_rx, events, allowed, tio>>

(***************************************************************************)
(* CreateContainer (rpc.rs:166-265).                                       *)
(***************************************************************************)
IdleCreate == [pc |-> "idle", cid |-> <<>>, m |-> <<>>, pid |-> 0, has_rx |-> FALSE,
               res |-> NoRes]

CreateDone(c, k, r) ==
    [c EXCEPT ![k].pc = "done", ![k].cid = <<>>, ![k].m = <<>>, ![k].pid = 0,
              ![k].has_rx = FALSE, ![k].res = r]

\* mount.rs add_storages, as rpc.rs:211-217 uses it: every storage is
\* mounted and counted in Sandbox.storages; the mount points are returned.
RECURSIVE add_storages(_, _)
add_storages(st, list) ==
    IF list = <<>> THEN st
    ELSE add_storages(
            Put(st, Head(list), IF Head(list) \in DOMAIN st THEN st[Head(list)] + 1 ELSE 1),
            Tail(list))

\* rpc.rs:170-217: verify_cid, the OCI spec, merge_bundle_oci, add_devices
\* and add_storages.  Each takes the sandbox lock only for its own lookups.
CreateBegin(k, cid, hasOci, sts, setupOk) ==
    /\ MayStart(cr, k)
    /\ IF ~verify_cid(cid)
       THEN /\ cr' = CreateDone(cr, k, ErrRes("invalid container ID"))
            /\ UNCHANGED storages
       ELSE IF ~hasOci
       THEN /\ cr' = CreateDone(cr, k, ErrRes("EINVAL"))
            /\ UNCHANGED storages
       ELSE IF lock # Free
       THEN FALSE
       ELSE IF ~setupOk
       THEN /\ cr' = CreateDone(cr, k, ErrRes("setup"))
            /\ UNCHANGED storages
       ELSE /\ cr' = [cr EXCEPT ![k].pc = "mounted", ![k].cid = cid, ![k].m = sts]
            /\ storages' = add_storages(storages, sts)
    /\ UNCHANGED <<containers, container_mounts, lock, rm, wt, nextInst, nextCInst, pinfo,
                   vid, vres, sg, frozen, sbx>>

\* rpc.rs:218-258: take the lock (kept until the handler returns), record the
\* mounts, then the namespace, cgroup, hook, bundle and process set-up, any of
\* which may fail.
CreateLock(k, setupOk) ==
    /\ cr[k].pc = "mounted"
    /\ lock = Free
    /\ container_mounts' = Put(container_mounts, cr[k].cid, cr[k].m)
    /\ IF ~setupOk
       THEN /\ cr' = CreateDone(cr, k, ErrRes("setup"))
            /\ lock' = Free
       ELSE /\ cr' = [cr EXCEPT ![k].pc = "starting"]
            /\ lock' = <<"cr", k>>
    /\ UNCHANGED <<containers, storages, rm, wt, nextInst, nextCInst, pinfo, vid, vres, sg, frozen, sbx>>

\* Sandbox::add_container: containers.insert(id, ctr), replacing an entry of
\* the same id.
add_container(cs, cid, ctr) == Put(cs, cid, ctr)

\* rpc.rs:248-259: LinuxContainer::new, Process::new and ctr.start(p).await?:
\* the runtime forks the init process.  The lock stays held.
CreateStart(k, pid, hasRx, startOk) ==
    /\ cr[k].pc = "starting"
    /\ lock = <<"cr", k>>
    /\ IF ~startOk \/ pid \notin FreePids \/ nextInst > MaxProcs
       THEN /\ cr' = CreateDone(cr, k, ErrRes("start"))
            /\ lock' = Free
       ELSE /\ cr' = [cr EXCEPT ![k].pc = "started", ![k].pid = pid, ![k].has_rx = hasRx]
            /\ UNCHANGED lock
    /\ UNCHANGED <<containers, container_mounts, storages, rm, wt, nextInst, nextCInst,
                   pinfo, vid, vres, sg, frozen, sbx>>

\* CreateRegister with add_container ahead of update_shared_pidns.
CreateRegisterEarly(k, pidnsOk) ==
    /\ cr[k].pc = "started"
    /\ lock = <<"cr", k>>
    /\ lock' = Free
    /\ cr' = CreateDone(cr, k, IF pidnsOk THEN OkRes(0) ELSE ErrRes("pidns"))
    /\ nextInst' = nextInst + 1
    /\ pinfo' = Put(pinfo, nextInst, NewPinfo(cr[k].cid, EmptyEid))
    /\ nextCInst' = nextCInst + 1
    /\ containers' = add_container(containers, cr[k].cid,
          [inst |-> nextCInst, init_pid |-> cr[k].pid, destroyed |-> FALSE,
           procs |-> Put(EmptyMap, cr[k].pid,
                         NewProcess(nextInst, cr[k].cid, TRUE, cr[k].has_rx))])
    /\ UNCHANGED <<container_mounts, storages, rm, wt, vid, vres, sg, frozen, sbx>>

\* rpc.rs:260-264: update_shared_pidns(&ctr)?, then add_container(ctr).  The
\* lock is released on return.
CreateRegister(k, pidnsOk) ==
    /\ cr[k].pc = "started"
    /\ lock = <<"cr", k>>
    /\ lock' = Free
    /\ IF ~pidnsOk
       THEN /\ cr' = CreateDone(cr, k, ErrRes("pidns"))
            /\ UNCHANGED <<containers, nextInst, nextCInst, pinfo>>
       ELSE /\ cr' = CreateDone(cr, k, OkRes(0))
            /\ nextInst' = nextInst + 1
            /\ pinfo' = Put(pinfo, nextInst, NewPinfo(cr[k].cid, EmptyEid))
            /\ nextCInst' = nextCInst + 1
            /\ containers' = add_container(containers, cr[k].cid,
                  [inst |-> nextCInst, init_pid |-> cr[k].pid, destroyed |-> FALSE,
                   procs |-> Put(EmptyMap, cr[k].pid,
                                 NewProcess(nextInst, cr[k].cid, TRUE, cr[k].has_rx))])
    /\ UNCHANGED <<container_mounts, storages, rm, wt, vid, vres, sg, frozen, sbx>>

(***************************************************************************)
(* RemoveContainer (rpc.rs:300-375).                                       *)
(***************************************************************************)
IdleRemove == [pc |-> "idle", cid |-> <<>>, timed |-> FALSE, tx |-> "none",
               bg |-> "none", log |-> <<>>, res |-> NoRes]

\* rpc.rs:309-316: the container's mounts that Sandbox.storages still holds.
cmounts(cid) ==
    IF cid \in DOMAIN container_mounts
    THEN SelectSeq(container_mounts[cid], LAMBDA m : m \in DOMAIN storages)
    ELSE <<>>

\* Sandbox::unset_and_remove_sandbox_storage over a list: the reference
\* count drops by one, and the storage leaves the map when it reaches zero.
RECURSIVE release_storages(_, _)
release_storages(st, list) ==
    IF list = <<>> THEN st
    ELSE LET m == Head(list) IN
         release_storages(
            IF m \notin DOMAIN st THEN st
            ELSE IF st[m] > 1 THEN [st EXCEPT ![m] = @ - 1] ELSE Del(st, m),
            Tail(list))

\* rpc.rs:307-325 remove_container_resources, ending the call r: the mounts
\* are released (a failure returns before anything is evicted), then the id
\* leaves container_mounts and containers.
RemoveResources(r, relOk) ==
    LET cid == rm[r].cid IN
    /\ storages' = release_storages(storages, cmounts(cid))
    /\ IF cmounts(cid) # <<>> /\ ~relOk
       THEN /\ UNCHANGED <<container_mounts, containers>>
            /\ rm' = [rm EXCEPT ![r].pc = "done", ![r].res = ErrRes("storage")]
       ELSE /\ container_mounts' = Del(container_mounts, cid)
            /\ containers' = Del(containers, cid)
            /\ rm' = [rm EXCEPT ![r].pc = "done", ![r].res = OkRes(0),
                                ![r].log = @ \o <<"release", "evict">>]

\* RemoveSyncLock with the lock guard dropped before destroy.
RemoveSyncLockDropped(r, cid) ==
    /\ MayStart(rm, r)
    /\ lock = Free
    /\ IF cid \notin DOMAIN containers
       THEN rm' = [rm EXCEPT ![r].pc = "done", ![r].cid = cid,
                             ![r].log = <<"unwatch">>,
                             ![r].res = ErrRes("Invalid container id")]
       ELSE rm' = [rm EXCEPT ![r].pc = "destroying", ![r].cid = cid,
                             ![r].log = <<"unwatch">>]
    /\ UNCHANGED <<containers, container_mounts, storages, lock, cr, wt, nextInst,
                   nextCInst, pinfo, vid, vres, sg, frozen, sbx>>

\* rpc.rs:327-335, timeout == 0: lock, bind_watcher.remove_container, lookup.
RemoveSyncLock(r, cid) ==
    /\ MayStart(rm, r)
    /\ lock = Free
    /\ IF cid \notin DOMAIN containers
       THEN /\ rm' = [rm EXCEPT ![r].pc = "done", ![r].cid = cid,
                                ![r].log = <<"unwatch">>,
                                ![r].res = ErrRes("Invalid container id")]
            /\ UNCHANGED lock
       ELSE /\ rm' = [rm EXCEPT ![r].pc = "destroying", ![r].cid = cid,
                                ![r].log = <<"unwatch">>]
            /\ lock' = <<"rm", r>>
    /\ UNCHANGED <<containers, container_mounts, storages, cr, wt, nextInst, nextCInst,
                   pinfo, vid, vres, sg, frozen, sbx>>

\* rpc.rs:333-337: destroy().await?, with the lock held.
RemoveSyncDestroy(r, destroyOk) ==
    /\ rm[r].pc = "destroying"
    /\ lock = <<"rm", r>>
    /\ IF ~destroyOk
       THEN /\ rm' = [rm EXCEPT ![r].pc = "done", ![r].res = ErrRes("destroy")]
            /\ lock' = Free
            /\ UNCHANGED containers
       ELSE /\ rm' = [rm EXCEPT ![r].pc = "destroyed", ![r].log = Append(@, "destroy")]
            /\ containers' = [containers EXCEPT ![rm[r].cid].destroyed = TRUE]
            /\ UNCHANGED lock
    /\ UNCHANGED <<container_mounts, storages, cr, wt, nextInst, nextCInst, pinfo,
                   vid, vres, sg, frozen, sbx>>

\* rpc.rs:339-341: remove_container_resources(&mut sandbox)?, still under the
\* lock taken at line 329, which the return releases.
RemoveSyncResources(r, relOk) ==
    /\ rm[r].pc = "destroyed"
    /\ lock = <<"rm", r>>
    /\ lock' = Free
    /\ RemoveResources(r, relOk)
    /\ UNCHANGED <<cr, wt, nextInst, nextCInst, pinfo, vid, vres, sg, frozen, sbx>>

\* rpc.rs:344-356, timeout != 0: the oneshot channel and the spawned task.
RemoveTimedSpawn(r, cid) ==
    /\ MayStart(rm, r)
    /\ rm' = [rm EXCEPT ![r].pc = "racing", ![r].cid = cid, ![r].timed = TRUE,
                        ![r].tx = "pending", ![r].bg = "spawned"]
    /\ UNCHANGED <<containers, container_mounts, storages, lock, cr, wt, nextInst,
                   nextCInst, pinfo, vid, vres, sg, frozen, sbx>>

\* rpc.rs:350-351: the spawned task takes the lock and looks the container
\* up; when it is absent the task ends and tx is dropped unsent.
DestroyTaskLock(r) ==
    /\ rm[r].bg = "spawned"
    /\ lock = Free
    /\ IF rm[r].cid \notin DOMAIN containers
       THEN /\ rm' = [rm EXCEPT ![r].bg = "done",
                                ![r].tx = IF @ = "pending" THEN "dropped" ELSE @]
            /\ UNCHANGED lock
       ELSE /\ rm' = [rm EXCEPT ![r].bg = "destroying"]
            /\ lock' = <<"bg", r>>
    /\ UNCHANGED <<containers, container_mounts, storages, cr, wt, nextInst, nextCInst,
                   pinfo, vid, vres, sg, frozen, sbx>>

\* rpc.rs:352-354: destroy().await.unwrap(), bind_watcher.remove_container,
\* tx.send(1).unwrap().  A failed destroy, or a send after the caller dropped
\* rx, panics the task; the lock guard is dropped either way.
DestroyTaskRun(r, destroyOk) ==
    /\ rm[r].bg = "destroying"
    /\ lock = <<"bg", r>>
    /\ lock' = Free
    /\ IF ~destroyOk
       THEN /\ rm' = [rm EXCEPT ![r].bg = "panicked",
                                ![r].tx = IF @ = "pending" THEN "dropped" ELSE @]
            /\ UNCHANGED containers
       ELSE /\ containers' = [containers EXCEPT ![rm[r].cid].destroyed = TRUE]
            /\ rm' = [rm EXCEPT ![r].bg = IF rm[r].tx = "pending" THEN "done" ELSE "panicked",
                                ![r].tx = IF @ = "pending" THEN "sent" ELSE @,
                                ![r].log = @ \o <<"destroy", "unwatch">>]
    /\ UNCHANGED <<container_mounts, storages, cr, wt, nextInst, nextCInst, pinfo,
                   vid, vres, sg, frozen, sbx>>

\* RemoveTimeout that also aborts the spawned task.
RemoveTimeoutAbort(r) ==
    /\ rm[r].pc = "racing"
    /\ rm[r].tx = "pending"
    /\ rm' = [rm EXCEPT ![r].pc = "done", ![r].tx = "rx_dropped", ![r].bg = "aborted",
                        ![r].res = ErrRes("ETIME")]
    /\ UNCHANGED <<containers, container_mounts, storages, lock, cr, wt, nextInst,
                   nextCInst, pinfo, vid, vres, sg, frozen, sbx>>

\* rpc.rs:358-363: the timer fires before rx resolves; rx is dropped.
RemoveTimeout(r) ==
    /\ rm[r].pc = "racing"
    /\ rm[r].tx = "pending"
    /\ rm' = [rm EXCEPT ![r].pc = "done", ![r].tx = "rx_dropped", ![r].res = ErrRes("ETIME")]
    /\ UNCHANGED <<containers, container_mounts, storages, lock, cr, wt, nextInst,
                   nextCInst, pinfo, vid, vres, sg, frozen, sbx>>

\* RemoveJoin with the result of handle.await ignored.
RemoveJoinIgnored(r) ==
    /\ rm[r].pc = "racing"
    /\ rm[r].tx \in {"sent", "dropped"}
    /\ rm[r].bg \in {"done", "panicked"}
    /\ rm' = [rm EXCEPT ![r].pc = "finalize"]
    /\ UNCHANGED <<containers, container_mounts, storages, lock, cr, wt, nextInst,
                   nextCInst, pinfo, vid, vres, sg, frozen, sbx>>

\* rpc.rs:358-367: rx resolved (a value, or tx dropped) before the timer;
\* then handle.await, which is an error when the task panicked.
RemoveJoin(r) ==
    /\ rm[r].pc = "racing"
    /\ rm[r].tx \in {"sent", "dropped"}
    /\ rm[r].bg \in {"done", "panicked"}
    /\ rm' = IF rm[r].bg = "panicked"
             THEN [rm EXCEPT ![r].pc = "done", ![r].res = ErrRes("UnknownErrno")]
             ELSE [rm EXCEPT ![r].pc = "finalize"]
    /\ UNCHANGED <<containers, container_mounts, storages, lock, cr, wt, nextInst,
                   nextCInst, pinfo, vid, vres, sg, frozen, sbx>>

\* rpc.rs:369-374: lock again, remove_container_resources.
RemoveFinalize(r, relOk) ==
    /\ rm[r].pc = "finalize"
    /\ lock = Free
    /\ RemoveResources(r, relOk)
    /\ UNCHANGED <<lock, cr, wt, nextInst, nextCInst, pinfo, vid, vres, sg, frozen, sbx>>

(***************************************************************************)
(* ExecProcess (rpc.rs:378-406): under the lock, the runtime runs a new    *)
(* process, which LinuxContainer records under its pid.                    *)
(***************************************************************************)
ExecProcess(cid, eid, pid, hasRx) ==
    /\ lock = Free
    /\ cid \in DOMAIN containers
    /\ ~containers[cid].destroyed
    /\ pid \in FreePids
    /\ nextInst <= MaxProcs
    /\ nextInst' = nextInst + 1
    /\ pinfo' = Put(pinfo, nextInst, NewPinfo(cid, eid))
    /\ containers' = [containers EXCEPT ![cid].procs =
                         Put(@, pid, NewProcess(nextInst, eid, FALSE, hasRx))]
    /\ UNCHANGED <<container_mounts, storages, lock, cr, rm, wt, nextCInst, vid, vres, sg, frozen, sbx>>

(***************************************************************************)
(* The runtime records a process's exit (the agent's SIGCHLD handling):    *)
(* under the lock, exit_code is set and the exit_tx sender is dropped,     *)
(* which closes the exit-change channel.                                   *)
(***************************************************************************)
ProcessExit(cid, pid, code) ==
    /\ lock = Free
    /\ cid \in DOMAIN containers
    /\ pid \in DOMAIN containers[cid].procs
    /\ ~containers[cid].procs[pid].exited
    /\ containers' = [containers EXCEPT ![cid].procs[pid].exited = TRUE,
                                        ![cid].procs[pid].exit_code = code]
    /\ pinfo' = [pinfo EXCEPT ![containers[cid].procs[pid].inst].exited = TRUE,
                              ![containers[cid].procs[pid].inst].code = code]
    /\ UNCHANGED <<container_mounts, storages, lock, cr, rm, wt, nextInst, nextCInst,
                   vid, vres, sg, frozen, sbx>>

\* A value is sent on the exit-change channel of a live process while its
\* sender is kept: every receiver, and every clone taken later (a clone starts
\* from the version the stored receiver has seen, which is the initial one),
\* has changed() return Ok once.
ExitChange(cid, pid) ==
    /\ lock = Free
    /\ cid \in DOMAIN containers
    /\ pid \in DOMAIN containers[cid].procs
    /\ containers[cid].procs[pid].has_rx
    /\ ~containers[cid].procs[pid].exited
    /\ ~pinfo[containers[cid].procs[pid].inst].changed
    /\ pinfo' = [pinfo EXCEPT ![containers[cid].procs[pid].inst].changed = TRUE]
    /\ UNCHANGED <<containers, container_mounts, storages, lock, cr, rm, wt, nextInst,
                   nextCInst, vid, vres, sg, frozen, sbx>>

(***************************************************************************)
(* WaitProcess (rpc.rs:509-576).                                           *)
(***************************************************************************)
\* reg, hadRx, got and late are history: the process identity the call
\* registered on, whether it held an exit-change receiver, the identity it
\* reaped, and the identities already reaped under the names it asked for.
IdleWait == [pc |-> "idle", cid |-> <<>>, eid |-> <<>>, pid |-> 0, rx |-> 0,
             ch |-> <<>>, res |-> NoRes,
             reg |-> 0, hadRx |-> FALSE, got |-> 0, late |-> {}]

\* The processes that went by the names (cid, eid), exited and were reaped.
ReapedAs(cid, eid) ==
    {i \in DOMAIN pinfo : /\ pinfo[i].cid = cid
                          /\ pinfo[i].eid = eid
                          /\ pinfo[i].exited
                          /\ pinfo[i].reaps > 0}

WaitDone(tasks, w, r) ==
    [tasks EXCEPT ![w].pc = "done", ![w].cid = <<>>, ![w].eid = <<>>, ![w].pid = 0,
                  ![w].rx = 0, ![w].ch = <<>>, ![w].res = r]

\* WaitRegister with the lookup error not returned (the `?` of line 530 lost).
WaitRegisterNoReturn(w, cid, eid) ==
    /\ MayStart(wt, w)
    /\ lock = Free
    /\ IF find_container_process(cid, eid) = {}
       THEN /\ wt' = [wt EXCEPT ![w].pc = "relock", ![w].cid = cid, ![w].eid = eid,
                                ![w].late = ReapedAs(cid, eid)]
            /\ UNCHANGED containers
       ELSE \E pid \in find_container_process(cid, eid) :
               LET p == containers[cid].procs[pid] IN
               /\ containers' = [containers EXCEPT
                                    ![cid].procs[pid].watchers = Append(@, w)]
               /\ wt' = [wt EXCEPT ![w].pc = IF p.has_rx THEN "waiting" ELSE "relock",
                                   ![w].cid = cid, ![w].eid = eid, ![w].pid = pid,
                                   ![w].rx = IF p.has_rx THEN p.inst ELSE 0,
                                   ![w].reg = p.inst, ![w].hadRx = p.has_rx,
                                   ![w].late = ReapedAs(cid, eid)]
    /\ UNCHANGED <<container_mounts, storages, lock, cr, rm, nextInst, nextCInst, pinfo,
                   vid, vres, sg, frozen, sbx>>

\* rpc.rs:528-536: under the lock, find the process, push the sender of a
\* fresh channel to its exit_watchers, keep its pid and a clone of exit_rx.
\* A failed lookup returns the error.
WaitRegister(w, cid, eid) ==
    /\ MayStart(wt, w)
    /\ lock = Free
    /\ IF find_container_process(cid, eid) = {}
       THEN /\ wt' = [WaitDone(wt, w, ErrRes("lookup")) EXCEPT
                         ![w].late = ReapedAs(cid, eid)]
            /\ UNCHANGED containers
       ELSE \E pid \in find_container_process(cid, eid) :
               LET p == containers[cid].procs[pid] IN
               /\ containers' = [containers EXCEPT
                                    ![cid].procs[pid].watchers = Append(@, w)]
               /\ wt' = [wt EXCEPT ![w].pc = IF p.has_rx THEN "waiting" ELSE "relock",
                                   ![w].cid = cid, ![w].eid = eid, ![w].pid = pid,
                                   ![w].rx = IF p.has_rx THEN p.inst ELSE 0,
                                   ![w].reg = p.inst, ![w].hadRx = p.has_rx,
                                   ![w].late = ReapedAs(cid, eid)]
    /\ UNCHANGED <<container_mounts, storages, lock, cr, rm, nextInst, nextCInst, pinfo,
                   vid, vres, sg, frozen, sbx>>

\* rpc.rs:538-542: while exit_rx.changed().await.is_ok() {} ends when the
\* channel is closed.
WaitExitSignal(w) ==
    /\ wt[w].pc = "waiting"
    /\ ExitChannelClosed(wt[w].rx)
    /\ wt' = [wt EXCEPT ![w].pc = "relock"]
    /\ UNCHANGED <<containers, container_mounts, storages, lock, cr, rm, nextInst,
                   nextCInst, pinfo, vid, vres, sg, frozen, sbx>>

\* rpc.rs:568-571: the exit code is sent to every sender in exit_watchers; a
\* send to a receiver that was dropped (its call returned) is an ignored error.
RECURSIVE Broadcast(_, _, _)
Broadcast(tasks, watchers, code) ==
    IF watchers = <<>> THEN tasks
    ELSE Broadcast(
            IF tasks[Head(watchers)].pc = "done" THEN tasks
            ELSE [tasks EXCEPT ![Head(watchers)].ch = Append(@, code)],
            Tail(watchers), code)

\* rpc.rs:573: ctr.processes.remove(&pid).
RemoveProcess(procs, pid) == Del(procs, pid)

\* rpc.rs:544-576: take the lock again and look the pid up.
WaitReap(w) ==
    /\ wt[w].pc = "relock"
    /\ lock = Free
    /\ LET cid == wt[w].cid
           pid == wt[w].pid
       IN
       IF cid \notin DOMAIN containers
       THEN /\ wt' = WaitDone(wt, w, ErrRes("Invalid container id"))
            /\ UNCHANGED <<containers, lock, pinfo>>
       ELSE IF pid \notin DOMAIN containers[cid].procs
       THEN \* lost the race: exit_recv.recv().await, with the lock held
            IF wt[w].ch # <<>>
            THEN /\ wt' = WaitDone(wt, w, OkRes(Head(wt[w].ch)))
                 /\ UNCHANGED <<containers, lock, pinfo>>
            ELSE IF ~SenderAlive(w)
            THEN /\ wt' = WaitDone(wt, w, ErrRes("Failed to receive exit code"))
                 /\ UNCHANGED <<containers, lock, pinfo>>
            ELSE /\ wt' = [wt EXCEPT ![w].pc = "recv"]
                 /\ lock' = <<"wt", w>>
                 /\ UNCHANGED <<containers, pinfo>>
       ELSE LET p == containers[cid].procs[pid] IN
            /\ wt' = [WaitDone(Broadcast(wt, p.watchers, p.exit_code), w,
                               OkRes(p.exit_code)) EXCEPT ![w].got = p.inst]
            /\ containers' = [containers EXCEPT ![cid].procs = RemoveProcess(@, pid)]
            /\ pinfo' = [pinfo EXCEPT ![p.inst].cleanups = @ + 1,
                                      ![p.inst].reaps = @ + 1,
                                      ![p.inst].reapedRunning = ~p.exited]
            /\ UNCHANGED lock
    /\ UNCHANGED <<container_mounts, storages, cr, rm, nextInst, nextCInst, vid, vres, sg, frozen, sbx>>

(***************************************************************************)
(* SignalProcess (rpc.rs:409-506).                                         *)
(***************************************************************************)
IdleSignal ==
    [pc |-> "idle", cid |-> <<>>, eid |-> <<>>, req |-> 0, sig |-> 0, target |-> 0,
     tinit |-> FALSE, mask |-> 0,
     froze |-> "none", pids |-> <<>>, enumerated |-> {}, tried |-> {}, failed |-> {},
     thaw |-> "none", res |-> NoRes]

\* The cgroup manager's get_pids: the pids of the container's processes that
\* have not exited.
cgroup_pids(cid) ==
    {p \in DOMAIN containers[cid].procs : ~containers[cid].procs[p].exited}

RECURSIVE PidVec(_)
\* The Vec<i32> of a set of pids, in ascending order.
PidVec(S) ==
    IF S = {} THEN <<>>
    ELSE LET m == CHOOSE x \in S : \A y \in S : x <= y IN <<m>> \o PidVec(S \ {m})

\* The signal-catch masks a process may have: none caught, one other signal
\* caught, SIGTERM and another caught.
CatchMasks == {0, 2, 16386}

\* char::is_whitespace, of the characters used here.
WhiteSpace == {" ", "\n"}

HexChars == <<"0", "1", "2", "3", "4", "5", "6", "7", "8", "9", "a", "b", "c", "d", "e", "f">>

RECURSIVE HexText(_, _)
\* n as `width` lower-case hexadecimal digits.
HexText(n, width) ==
    IF width = 0 THEN <<>>
    ELSE Append(HexText(n \div 16, width - 1), HexChars[(n % 16) + 1])

\* The lines of /proc/<pid>/status that matter, as the kernel writes them: a
\* line of another field, then "SigCgt:", a tab and the mask in 16 digits.
ProcStatus(mask) ==
    << <<"P", "i", "d", ":", "\t", "7">>,
       <<"S", "i", "g", "C", "g", "t", ":", "\t">> \o HexText(mask, 16) >>

\* str::starts_with.
starts_with(line, prefix) ==
    Len(line) >= Len(prefix) /\ SubSeq(line, 1, Len(prefix)) = prefix

RECURSIVE split(_, _)
\* str::split(sep).collect(): the fields between the separators.
split(line, sep) ==
    IF \A i \in 1..Len(line) : line[i] # sep THEN <<line>>
    ELSE LET k == CHOOSE i \in 1..Len(line) :
                      line[i] = sep /\ \A j \in 1..(i - 1) : line[j] # sep
         IN <<SubSeq(line, 1, k - 1)>> \o split(SubSeq(line, k + 1, Len(line)), sep)

RECURSIVE HexValue(_)
HexValue(str) ==
    IF str = <<>> THEN 0
    ELSE 16 * HexValue(SubSeq(str, 1, Len(str) - 1))
         + ((CHOOSE d \in 1..16 : HexChars[d] = str[Len(str)]) - 1)

\* u64::from_str_radix(str, 16): an error on the empty string and on any
\* character that is no hexadecimal digit.
from_str_radix(str) ==
    IF str = <<>> \/ \E i \in 1..Len(str) : str[i] \notin Range(HexChars)
    THEN [ok |-> FALSE, val |-> 0]
    ELSE [ok |-> TRUE, val |-> HexValue(str)]

\* (mask & (1 << (signum - 1))) == 1 << (signum - 1).
HasSigBit(mask, signum) == (mask \div (2 ^ (signum - 1))) % 2 = 1

RECURSIVE ScanStatus(_, _)
\* rpc.rs:1728-1754: the first line that starts with "SigCgt:" decides.
ScanStatus(lines, signum) ==
    IF lines = <<>> THEN FALSE
    ELSE IF starts_with(Head(lines), <<"S", "i", "g", "C", "g", "t", ":">>)
         THEN LET mask_vec == split(Head(lines), ":") IN
              IF Len(mask_vec) # 2 THEN FALSE
              ELSE LET sig_cgt_mask == from_str_radix(mask_vec[2]) IN
                   IF ~sig_cgt_mask.ok THEN FALSE
                   ELSE HasSigBit(sig_cgt_mask.val, signum)
         ELSE ScanStatus(Tail(lines), signum)

\* rpc.rs:1712-1755: false when the status file cannot be opened.
is_signal_handled(readable, mask, signum) ==
    IF ~readable THEN FALSE ELSE ScanStatus(ProcStatus(mask), signum)

\* SigTarget with the guard of line 423 kept past the block.
SigTargetKeepsGuard(s, cid, eid, sig, readable, mask, sigOk) ==
    /\ MayStart(sg, s)
    /\ lock = Free
    /\ find_container_process(cid, eid) # {}
    /\ \E pid \in find_container_process(cid, eid) :
          LET p == containers[cid].procs[pid] IN
          sg' = [sg EXCEPT ![s].pc = IF sigOk /\ eid = EmptyEid THEN "freeze" ELSE "done",
                           ![s].cid = cid, ![s].eid = eid, ![s].req = sig, ![s].sig = sig,
                           ![s].target = p.inst, ![s].tinit = p.init, ![s].mask = mask,
                           ![s].res = IF ~sigOk THEN ErrRes("signal")
                                      ELSE IF eid = EmptyEid THEN NoRes ELSE OkRes(0)]
    /\ lock' = IF sigOk /\ eid = EmptyEid THEN <<"sg", s>> ELSE Free
    /\ UNCHANGED <<containers, container_mounts, storages, cr, rm, wt, nextInst,
                   nextCInst, pinfo, vid, vres, frozen, sbx>>

\* rpc.rs:421-432: under the lock, find the process (the init process for an
\* empty eid), escalate SIGTERM to SIGKILL for an init process that has no
\* handler installed, and p.signal(sig)?.  For a non-empty eid the call ends
\* here.
SigTarget(s, cid, eid, sig, readable, mask, sigOk) ==
    /\ MayStart(sg, s)
    /\ lock = Free
    /\ IF find_container_process(cid, eid) = {}
       THEN sg' = [sg EXCEPT ![s].pc = "done", ![s].cid = cid, ![s].eid = eid,
                             ![s].req = sig, ![s].res = ErrRes("lookup")]
       ELSE \E pid \in find_container_process(cid, eid) :
               LET p == containers[cid].procs[pid]
                   sent == IF p.init /\ sig = SIGTERM
                                     /\ ~is_signal_handled(readable, mask, sig)
                           THEN SIGKILL ELSE sig
               IN sg' = [sg EXCEPT
                     ![s].pc = IF sigOk /\ eid = EmptyEid THEN "freeze" ELSE "done",
                     ![s].cid = cid, ![s].eid = eid, ![s].req = sig, ![s].sig = sent,
                     ![s].target = p.inst, ![s].tinit = p.init, ![s].mask = mask,
                     ![s].res = IF ~sigOk THEN ErrRes("signal")
                                ELSE IF eid = EmptyEid THEN NoRes ELSE OkRes(0)]
    /\ UNCHANGED <<containers, container_mounts, storages, lock, cr, rm, wt, nextInst,
                   nextCInst, pinfo, vid, vres, frozen, sbx>>

\* rpc.rs:443-451, 480-492: freeze_cgroup(Frozen) under its own lock hold; an
\* error is logged only.
SigFreeze(s, freezeOk) ==
    /\ sg[s].pc = "freeze"
    /\ lock = Free
    /\ IF sg[s].cid \in DOMAIN containers /\ freezeOk
       THEN /\ frozen' = frozen \cup {containers[sg[s].cid].inst}
            /\ sg' = [sg EXCEPT ![s].pc = "get_pids", ![s].froze = "ok"]
       ELSE /\ frozen' = frozen
            /\ sg' = [sg EXCEPT ![s].pc = "get_pids", ![s].froze = "err"]
    /\ UNCHANGED <<containers, container_mounts, storages, lock, cr, rm, wt, nextInst,
                   nextCInst, pinfo, vid, vres, sbx>>

\* rpc.rs:453, 494-506: get_pids(&cid).await? under its own lock hold; an
\* error ends the call.
SigGetPids(s, pidsOk) ==
    /\ sg[s].pc = "get_pids"
    /\ lock = Free
    /\ IF sg[s].cid \in DOMAIN containers /\ pidsOk
       THEN sg' = [sg EXCEPT ![s].pc = "kill",
                             ![s].pids = PidVec(cgroup_pids(sg[s].cid)),
                             ![s].enumerated = cgroup_pids(sg[s].cid)]
       ELSE sg' = [sg EXCEPT ![s].pc = "done", ![s].res = ErrRes("get_pids")]
    /\ UNCHANGED <<containers, container_mounts, storages, lock, cr, rm, wt, nextInst,
                   nextCInst, pinfo, vid, vres, frozen, sbx>>

\* rpc.rs:454-466: one iteration of the loop: libc::kill(pid, sig), an error
\* is logged only.
SigKill(s, killOk) ==
    /\ sg[s].pc = "kill"
    /\ sg[s].pids # <<>>
    /\ sg' = [sg EXCEPT ![s].pids = Tail(@),
                        ![s].tried = @ \cup {Head(sg[s].pids)},
                        ![s].failed = IF killOk THEN @ ELSE @ \cup {Head(sg[s].pids)}]
    /\ UNCHANGED <<containers, container_mounts, storages, lock, cr, rm, wt, nextInst,
                   nextCInst, pinfo, vid, vres, frozen, sbx>>

\* rpc.rs:467-477: after the loop, freeze_cgroup(Thawed), an error is logged
\* only; Ok(()).
SigThaw(s, thawOk) ==
    /\ sg[s].pc = "kill"
    /\ sg[s].pids = <<>>
    /\ lock = Free
    /\ IF sg[s].cid \in DOMAIN containers /\ thawOk
       THEN /\ frozen' = frozen \ {containers[sg[s].cid].inst}
            /\ sg' = [sg EXCEPT ![s].pc = "done", ![s].thaw = "ok", ![s].res = OkRes(0)]
       ELSE /\ frozen' = frozen
            /\ sg' = [sg EXCEPT ![s].pc = "done", ![s].thaw = "err", ![s].res = OkRes(0)]
    /\ UNCHANGED <<containers, container_mounts, storages, lock, cr, rm, wt, nextInst,
                   nextCInst, pinfo, vid, vres, sbx>>

(***************************************************************************)
(* DestroySandbox (rpc.rs:1179-1212).                                      *)
(***************************************************************************)
IdleDestroy == [pc |-> "idle", late |-> FALSE, res |-> NoRes]

\* Sandbox::destroy: every container is destroyed.
destroy_all(cs) == [c \in DOMAIN cs |-> [cs[c] EXCEPT !.destroyed = TRUE]]

\* rpc.rs:1184-1187: the call has arrived and is about to lock.
DestroyBegin(d) ==
    /\ MayStart(ds, d)
    /\ ds' = [ds EXCEPT ![d].pc = "locking"]
    /\ UNCHANGED <<containers, container_mounts, storages, lock, calls, sg, frozen,
                   sender, event_tx, shutdowns, oo, event_rx, events, allowed, cl, io, tio>>

\* rpc.rs:1188: s.lock().await.
DestroyLock(d) ==
    /\ ds[d].pc = "locking"
    /\ lock = Free
    /\ lock' = <<"ds", d>>
    /\ ds' = [ds EXCEPT ![d].pc = "destroying", ![d].late = (sender = "none")]
    /\ UNCHANGED <<containers, container_mounts, storages, calls, sg, frozen,
                   sender, event_tx, shutdowns, oo, event_rx, events, allowed, cl, io, tio>>

\* DestroyRun that leaves the sender in place (as_ref in place of take).
DestroyRunKeepSender(d, destroyOk, recvAlive) ==
    /\ ds[d].pc = "destroying"
    /\ lock = <<"ds", d>>
    /\ lock' = Free
    /\ IF ~destroyOk
       THEN /\ ds' = [ds EXCEPT ![d].pc = "done", ![d].res = ErrRes("destroy")]
            /\ UNCHANGED <<containers, sender, event_tx, shutdowns>>
       ELSE /\ containers' = destroy_all(containers)
            /\ event_tx' = FALSE
            /\ sender' = sender
            /\ shutdowns' = IF recvAlive THEN shutdowns + 1 ELSE shutdowns
            /\ ds' = [ds EXCEPT ![d].pc = "done",
                                ![d].res = IF recvAlive THEN OkRes(0) ELSE ErrRes("send")]
    /\ UNCHANGED <<container_mounts, storages, calls, sg, frozen, oo, event_rx, events, allowed, cl, io, tio>>

\* rpc.rs:1189-1211, under the lock: sandbox.destroy().await?, event_tx.take(),
\* sender.take() (an error when it is None), send(1) (an error when the
\* receiver is gone).
DestroyRun(d, destroyOk, recvAlive) ==
    /\ ds[d].pc = "destroying"
    /\ lock = <<"ds", d>>
    /\ lock' = Free
    /\ IF ~destroyOk
       THEN /\ ds' = [ds EXCEPT ![d].pc = "done", ![d].res = ErrRes("destroy")]
            /\ UNCHANGED <<containers, sender, event_tx, shutdowns>>
       ELSE /\ containers' = destroy_all(containers)
            /\ event_tx' = FALSE
            /\ sender' = "none"
            /\ IF sender = "none"
               THEN /\ ds' = [ds EXCEPT ![d].pc = "done", ![d].res = ErrRes("sender")]
                    /\ UNCHANGED shutdowns
               ELSE /\ shutdowns' = IF recvAlive THEN shutdowns + 1 ELSE shutdowns
                    /\ ds' = [ds EXCEPT ![d].pc = "done",
                                        ![d].res = IF recvAlive THEN OkRes(0)
                                                   ELSE ErrRes("send")]
    /\ UNCHANGED <<container_mounts, storages, calls, sg, frozen, oo, event_rx, events, allowed, cl, io, tio>>

(***************************************************************************)
(* GetOOMEvent (rpc.rs:1373-1396).                                         *)
(***************************************************************************)
IdleOom == [pc |-> "idle", res |-> NoRes]

\* rpc.rs:1379-1380: sandbox.lock().await.
OomLock(o) ==
    /\ MayStart(oo, o)
    /\ lock = Free
    /\ lock' = <<"oo", o>>
    /\ oo' = [oo EXCEPT ![o].pc = "mutex"]
    /\ UNCHANGED <<containers, container_mounts, storages, calls, sg, frozen,
                   ds, sender, event_tx, shutdowns, event_rx, events, allowed, cl, io, tio>>

\* rpc.rs:1381-1384: event_rx.lock().await with the sandbox lock held, then
\* drop(s).
OomMutex(o) ==
    /\ oo[o].pc = "mutex"
    /\ lock = <<"oo", o>>
    /\ event_rx = 0
    /\ event_rx' = o
    /\ lock' = Free
    /\ oo' = [oo EXCEPT ![o].pc = "recv"]
    /\ UNCHANGED <<containers, container_mounts, storages, calls, sg, frozen,
                   ds, sender, event_tx, shutdowns, events, allowed, cl, io, tio>>

\* rpc.rs:1386-1395: event_rx.recv().await: an event, or None once the
\* channel is closed and empty; the mutex guard is dropped on return.
OomRecv(o) ==
    /\ oo[o].pc = "recv"
    /\ event_rx = o
    /\ events > 0 \/ ~event_tx
    /\ event_rx' = 0
    /\ IF events > 0
       THEN /\ events' = events - 1
            /\ oo' = [oo EXCEPT ![o].pc = "done", ![o].res = OkRes(0)]
       ELSE /\ events' = events
            /\ oo' = [oo EXCEPT ![o].pc = "done", ![o].res = ErrRes("closed")]
    /\ UNCHANGED <<containers, container_mounts, storages, lock, calls, sg, frozen,
                   ds, sender, event_tx, shutdowns, allowed, cl, io, tio>>

\* The OOM monitor sends a container id while the sender exists.
OomEvent ==
    /\ event_tx
    /\ events < MaxEvents
    /\ events' = events + 1
    /\ UNCHANGED <<containers, container_mounts, storages, lock, calls, sg, frozen,
                   ds, sender, event_tx, shutdowns, oo, event_rx, allowed, cl, io, tio>>

(***************************************************************************)
(* CloseStdin (rpc.rs:925-950).                                            *)
(***************************************************************************)
IdleClose == [pc |-> "idle", target |-> 0, res |-> NoRes]

\* CloseStdin where closing a stream that is already closed is an error.
CloseStdinStrict(c, cid, eid) ==
    /\ MayStart(cl, c)
    /\ lock = Free
    /\ IF find_container_process(cid, eid) = {}
       THEN /\ cl' = [cl EXCEPT ![c].pc = "done", ![c].res = ErrRes("INVALID_ARGUMENT")]
            /\ UNCHANGED containers
       ELSE \E pid \in find_container_process(cid, eid) :
               LET p == containers[cid].procs[pid] IN
               /\ cl' = [cl EXCEPT ![c].pc = "done", ![c].target = p.inst,
                                   ![c].res = IF p.parent_stdin THEN OkRes(0)
                                              ELSE ErrRes("INTERNAL")]
               /\ containers' = [containers EXCEPT ![cid].procs[pid].parent_stdin = FALSE]
    /\ UNCHANGED <<container_mounts, storages, lock, calls, frozen, ds, sender, event_tx,
                   shutdowns, oo, event_rx, events, allowed, io, tio>>

\* rpc.rs:933-949: under the lock, find_container_process (INVALID_ARGUMENT
\* when it fails), then Process::close_stdin, which drops parent_stdin if it
\* is still there; the guard is dropped on return.
CloseStdin(c, cid, eid) ==
    /\ MayStart(cl, c)
    /\ lock = Free
    /\ IF find_container_process(cid, eid) = {}
       THEN /\ cl' = [cl EXCEPT ![c].pc = "done", ![c].res = ErrRes("INVALID_ARGUMENT")]
            /\ UNCHANGED containers
       ELSE \E pid \in find_container_process(cid, eid) :
               /\ cl' = [cl EXCEPT ![c].pc = "done",
                                   ![c].target = containers[cid].procs[pid].inst,
                                   ![c].res = OkRes(0)]
               /\ containers' = [containers EXCEPT ![cid].procs[pid].parent_stdin = FALSE]
    /\ UNCHANGED <<container_mounts, storages, lock, calls, frozen, ds, sender, event_tx,
                   shutdowns, oo, event_rx, events, allowed, io, tio>>

(***************************************************************************)
(* Process streams: ResizeTTY (rpc.rs:952-992), WriteStdin (578-606),      *)
(* ReadStdout and ReadStderr (608-655, 1600-1612).                         *)
(***************************************************************************)
\* The stream state of a process: term_master and parent_stdout are Some,
\* the permit of term_exit_notifier, the holder of the writer's mutex, the
\* bytes that reached a writer (one entry a byte: the call and the stream),
\* the bytes ready at the readers ("out" is the terminal master or the
\* stdout pipe, "err" the stderr pipe), whether the far ends are closed, and
\* the window-size operations issued.
NewTio(term, stdout) ==
    [term_master |-> term, parent_stdout |-> stdout, hung |-> FALSE, permit |-> FALSE,
     wmutex |-> 0, out |-> <<>>, avail |-> [out |-> 0, err |-> 0], eof |-> FALSE,
     winsz |-> 0]

IdleIo == [pc |-> "idle", op |-> "", target |-> 0, len |-> 0, left |-> 0,
           tty |-> FALSE, rd |-> "", res |-> NoRes]

\* What the stream actions leave alone.
IoFrame ==
    UNCHANGED <<containers, container_mounts, storages, lock, calls, frozen, ds, sender,
                event_tx, shutdowns, oo, event_rx, events, allowed, cl>>

\* TtyWinResize that issues the ioctl whether or not there is a terminal.
TtyWinResizeNoCheck(i, cid, eid, ioctlOk) ==
    /\ MayStart(io, i)
    /\ lock = Free
    /\ IF find_container_process(cid, eid) = {}
       THEN /\ io' = [io EXCEPT ![i].pc = "done", ![i].op = "resize",
                                ![i].res = ErrRes("UNAVAILABLE")]
            /\ UNCHANGED tio
       ELSE \E pid \in find_container_process(cid, eid) :
               LET t == containers[cid].procs[pid].inst IN
               /\ tio' = [tio EXCEPT ![t].winsz = @ + 1]
               /\ io' = [io EXCEPT ![i].pc = "done", ![i].op = "resize",
                                   ![i].target = t, ![i].tty = tio[t].term_master,
                                   ![i].res = IF ioctlOk THEN OkRes(0)
                                              ELSE ErrRes("INTERNAL")]
    /\ IoFrame

\* rpc.rs:960-991, under the lock: find_container_process (UNAVAILABLE when
\* it fails); with a term_master the TIOCSWINSZ ioctl (INTERNAL when it
\* fails), without one UNAVAILABLE "no tty".
TtyWinResize(i, cid, eid, ioctlOk) ==
    /\ MayStart(io, i)
    /\ lock = Free
    /\ IF find_container_process(cid, eid) = {}
       THEN /\ io' = [io EXCEPT ![i].pc = "done", ![i].op = "resize",
                                ![i].res = ErrRes("UNAVAILABLE")]
            /\ UNCHANGED tio
       ELSE \E pid \in find_container_process(cid, eid) :
               LET t == containers[cid].procs[pid].inst IN
               IF tio[t].term_master
               THEN /\ tio' = [tio EXCEPT ![t].winsz = @ + 1]
                    /\ io' = [io EXCEPT ![i].pc = "done", ![i].op = "resize",
                                        ![i].target = t, ![i].tty = TRUE,
                                        ![i].res = IF ioctlOk THEN OkRes(0)
                                                   ELSE ErrRes("INTERNAL")]
               ELSE /\ UNCHANGED tio
                    /\ io' = [io EXCEPT ![i].pc = "done", ![i].op = "resize",
                                        ![i].target = t,
                                        ![i].res = ErrRes("UNAVAILABLE")]
    /\ IoFrame

\* rpc.rs:585-599: under the lock, find_container_process, then the writer
\* of the terminal master if there is one, of parent_stdin otherwise; an
\* error when the process has no such writer.
WriteLookup(i, cid, eid, len) ==
    /\ MayStart(io, i)
    /\ lock = Free
    /\ IF find_container_process(cid, eid) = {}
       THEN io' = [io EXCEPT ![i].pc = "done", ![i].op = "write", ![i].res = ErrRes("lookup")]
       ELSE \E pid \in find_container_process(cid, eid) :
               LET p == containers[cid].procs[pid] IN
               IF ~tio[p.inst].term_master /\ ~p.parent_stdin
               THEN io' = [io EXCEPT ![i].pc = "done", ![i].op = "write",
                                     ![i].target = p.inst,
                                     ![i].res = ErrRes("cannot get writer")]
               ELSE io' = [io EXCEPT ![i].pc = "wlock", ![i].op = "write",
                                     ![i].target = p.inst, ![i].len = len,
                                     ![i].left = len, ![i].tty = tio[p.inst].term_master]
    /\ UNCHANGED tio
    /\ IoFrame

\* WriteAll that does not wait for the writer's mutex.
WriteAllUnlocked(i, ok) ==
    LET t == io[i].target IN
    /\ io[i].op = "write"
    /\ io[i].pc \in {"wlock", "writing"}
    /\ IF io[i].pc = "wlock"
       THEN /\ tio' = [tio EXCEPT ![t].wmutex = i]
            /\ io' = [io EXCEPT ![i].pc = "writing"]
       ELSE IF io[i].left = 0 \/ ~ok
       THEN /\ tio' = [tio EXCEPT ![t].wmutex = 0]
            /\ io' = [io EXCEPT ![i].pc = "done",
                                ![i].res = IF io[i].left = 0 THEN OkRes(io[i].len)
                                           ELSE ErrRes("write")]
       ELSE /\ tio' = [tio EXCEPT ![t].out = Append(@, <<i, io[i].tty>>)]
            /\ io' = [io EXCEPT ![i].left = @ - 1]
    /\ IoFrame

\* rpc.rs:600-605: writer.lock().await, then write_all, which hands the
\* buffer to the stream piece by piece (here a byte at a time) and may fail
\* at any of them; the guard is dropped at the end of the statement and the
\* response carries req.data.len().
WriteAll(i, ok) ==
    LET t == io[i].target IN
    /\ io[i].op = "write"
    /\ io[i].pc \in {"wlock", "writing"}
    /\ IF io[i].pc = "wlock"
       THEN /\ tio[t].wmutex = 0
            /\ tio' = [tio EXCEPT ![t].wmutex = i]
            /\ io' = [io EXCEPT ![i].pc = "writing"]
       ELSE IF io[i].left = 0 \/ ~ok
       THEN /\ tio' = [tio EXCEPT ![t].wmutex = 0]
            /\ io' = [io EXCEPT ![i].pc = "done",
                                ![i].res = IF io[i].left = 0 THEN OkRes(io[i].len)
                                           ELSE ErrRes("write")]
       ELSE /\ tio' = [tio EXCEPT ![t].out = Append(@, <<i, io[i].tty>>)]
            /\ io' = [io EXCEPT ![i].left = @ - 1]
    /\ IoFrame

\* rpc.rs:617-639: under the lock, find_container_process, then the reader:
\* the terminal master's (with the process's term_exit_notifier), or the
\* stdout pipe's if there is one (EINVAL if not), or the stderr pipe's.
ReadLookup(i, cid, eid, stdout, len) ==
    /\ MayStart(io, i)
    /\ lock = Free
    /\ IF find_container_process(cid, eid) = {}
       THEN io' = [io EXCEPT ![i].pc = "done", ![i].op = "read", ![i].res = ErrRes("lookup")]
       ELSE \E pid \in find_container_process(cid, eid) :
               LET t == containers[cid].procs[pid].inst IN
               IF ~tio[t].term_master /\ stdout /\ ~tio[t].parent_stdout
               THEN io' = [io EXCEPT ![i].pc = "done", ![i].op = "read", ![i].target = t,
                                     ![i].rd = "out", ![i].res = ErrRes("EINVAL")]
               ELSE io' = [io EXCEPT ![i].pc = "select", ![i].op = "read", ![i].target = t,
                                     ![i].len = len, ![i].tty = tio[t].term_master,
                                     ![i].rd = IF tio[t].term_master \/ stdout
                                               THEN "out" ELSE "err"]
    /\ UNCHANGED tio
    /\ IoFrame

\* ReadSelect whose read reports zero bytes as an empty success.
ReadSelectEmptyOk(i, notified, readOk) ==
    LET t == io[i].target
        n == IF tio[t].avail[io[i].rd] < io[i].len THEN tio[t].avail[io[i].rd]
             ELSE io[i].len
    IN
    /\ io[i].pc = "select"
    /\ IF notified
       THEN /\ io[i].tty
            /\ tio[t].permit
            /\ tio' = [tio EXCEPT ![t].permit = FALSE]
            /\ io' = [io EXCEPT ![i].pc = "done", ![i].res = ErrRes("eof")]
       ELSE /\ tio[t].avail[io[i].rd] > 0 \/ tio[t].eof
            /\ tio' = [tio EXCEPT ![t].avail[io[i].rd] = @ - n]
            /\ io' = [io EXCEPT ![i].pc = "done",
                                ![i].res = IF ~readOk THEN ErrRes("read") ELSE OkRes(n)]
    /\ IoFrame

\* rpc.rs:643-654 and read_stream (1600-1612): select! between
\* term_exit_notifier.notified(), which takes the notifier's permit (the
\* notifier of a process without a terminal is a fresh one that nobody
\* fires), and one read of at most len bytes, which returns once bytes are
\* ready or the far end is closed, and is an error when it yields none.
ReadSelect(i, notified, readOk) ==
    LET t == io[i].target
        n == IF tio[t].avail[io[i].rd] < io[i].len THEN tio[t].avail[io[i].rd]
             ELSE io[i].len
    IN
    /\ io[i].pc = "select"
    /\ IF notified
       THEN /\ io[i].tty
            /\ tio[t].permit
            /\ tio' = [tio EXCEPT ![t].permit = FALSE]
            /\ io' = [io EXCEPT ![i].pc = "done", ![i].res = ErrRes("eof")]
       ELSE /\ tio[t].avail[io[i].rd] > 0 \/ tio[t].eof
            /\ tio' = [tio EXCEPT ![t].avail[io[i].rd] = @ - n]
            /\ io' = [io EXCEPT ![i].pc = "done",
                                ![i].res = IF ~readOk THEN ErrRes("read")
                                           ELSE IF n = 0 THEN ErrRes("read meet eof")
                                           ELSE OkRes(n)]
    /\ IoFrame

\* The terminal of a running process hangs up: the notifier is fired once
\* (Notify::notify_one: a waiter is woken, or the permit is kept for the
\* next notified()).
Hangup(t) ==
    /\ t < nextInst
    /\ tio[t].term_master
    /\ ~tio[t].hung
    /\ tio' = [tio EXCEPT ![t].hung = TRUE, ![t].permit = TRUE]
    /\ UNCHANGED io
    /\ IoFrame

\* The process writes a byte to one of its output streams, or the far end
\* of its streams is closed.
StreamData(t, rd, close) ==
    /\ t < nextInst
    /\ ~tio[t].eof
    /\ IF close
       THEN tio' = [tio EXCEPT ![t].eof = TRUE]
       ELSE /\ tio[t].avail[rd] < MaxLen
            /\ rd = "err" => ~tio[t].term_master
            /\ tio' = [tio EXCEPT ![t].avail[rd] = @ + 1]
    /\ UNCHANGED io
    /\ IoFrame

(***************************************************************************)
(* verify_cid applied to one input.                                        *)
(***************************************************************************)
VerifyCid ==
    /\ vres = "none"
    /\ vres' = IF verify_cid(vid) THEN "ok" ELSE "err"
    /\ UNCHANGED <<containers, container_mounts, storages, lock, cr, rm, wt,
                   nextInst, nextCInst, pinfo, vid, sg, frozen, sbx>>

(***************************************************************************)
(* Specifications.                                                         *)
(***************************************************************************)
InitRegistry ==
    /\ containers = EmptyMap
    /\ container_mounts = EmptyMap
    /\ storages = EmptyMap
    /\ lock = Free
    /\ cr = [k \in Creates |-> IdleCreate]
    /\ rm = [r \in 1..MaxRaceRemoves |-> IdleRemove]
    /\ wt = [w \in Waiters |-> IdleWait]
    /\ nextInst = 1
    /\ nextCInst = 1
    /\ pinfo = EmptyMap
    /\ sg = [s \in Signals |-> IdleSignal]
    /\ frozen = {}
    /\ ds = [d \in Destroys |-> IdleDestroy]
    /\ sender = "some"
    /\ event_tx = TRUE
    /\ shutdowns = 0
    /\ oo = [o \in OomCalls |-> IdleOom]
    /\ event_rx = 0
    /\ events = 0
    /\ cl = [c \in Closes |-> IdleClose]
    /\ io = [i \in Ios |-> IdleIo]

\* The default configuration allows every endpoint; the processes run
\* without a terminal, on pipes.
Init ==
    /\ InitRegistry
    /\ vid = <<>>
    /\ vres = "none"
    /\ allowed = Endpoints
    /\ tio = [i \in 1..MaxProcs |-> NewTio(FALSE, TRUE)]

\* The container id of a CreateContainer request is one of the ids the
\* other requests name, or the string under test.
Create ==
    \/ \E k \in Creates, cid \in ReqCids \cup {vid}, hasOci \in BOOLEAN, sts \in ReqStorages,
          setupOk \in BOOLEAN :
          is_allowed("CreateContainerRequest", cr, k, <<rm, wt, sg, ds, oo, cl, io>>,
                     CreateBegin(k, cid, hasOci, sts, setupOk))
    \/ \E k \in Creates, setupOk \in BOOLEAN : CreateLock(k, setupOk)
    \/ \E k \in Creates, pid \in Pids, hasRx \in BOOLEAN, startOk \in BOOLEAN :
          CreateStart(k, pid, hasRx, startOk)
    \/ \E k \in Creates, pidnsOk \in BOOLEAN : CreateRegister(k, pidnsOk)

RemoveSync ==
    \/ \E r \in Removes, cid \in ReqCids :
          is_allowed("RemoveContainerRequest", rm, r, <<cr, wt, sg, ds, oo, cl, io>>,
                     RemoveSyncLock(r, cid))
    \/ \E r \in Removes, destroyOk \in BOOLEAN : RemoveSyncDestroy(r, destroyOk)
    \/ \E r \in Removes, relOk \in BOOLEAN : RemoveSyncResources(r, relOk)

RemoveTimed ==
    \/ \E r \in Removes, cid \in ReqCids :
          is_allowed("RemoveContainerRequest", rm, r, <<cr, wt, sg, ds, oo, cl, io>>,
                     RemoveTimedSpawn(r, cid))
    \/ \E r \in Removes : DestroyTaskLock(r)
    \/ \E r \in Removes, destroyOk \in BOOLEAN : DestroyTaskRun(r, destroyOk)
    \/ \E r \in Removes : RemoveTimeout(r)
    \/ \E r \in Removes : RemoveJoin(r)
    \/ \E r \in Removes, relOk \in BOOLEAN : RemoveFinalize(r, relOk)

\* A blocked ExecProcess changes nothing; the model keeps no record of it.
Exec == \E cid \in ReqCids, eid \in ReqEids \ {EmptyEid}, pid \in Pids, hasRx \in BOOLEAN :
           /\ is_allowed_endpoint("ExecProcessRequest")
           /\ ExecProcess(cid, eid, pid, hasRx)

Exit == \E cid \in ReqCids, pid \in Pids, code \in ExitCodes : ProcessExit(cid, pid, code)

Wait ==
    \/ \E w \in Waiters, cid \in ReqCids, eid \in ReqEids :
          is_allowed("WaitProcessRequest", wt, w, <<cr, rm, sg, ds, oo, cl, io>>,
                     WaitRegister(w, cid, eid))
    \/ \E w \in Waiters : WaitExitSignal(w)
    \/ \E w \in Waiters : WaitReap(w)

Signal ==
    \/ \E s \in Signals, cid \in ReqCids, eid \in ReqEids, sig \in ReqSignals,
          readable \in BOOLEAN, mask \in CatchMasks, sigOk \in BOOLEAN :
          is_allowed("SignalProcessRequest", sg, s, <<cr, rm, wt, ds, oo, cl, io>>,
                     SigTarget(s, cid, eid, sig, readable, mask, sigOk))
    \/ \E s \in Signals, freezeOk \in BOOLEAN : SigFreeze(s, freezeOk)
    \/ \E s \in Signals, pidsOk \in BOOLEAN : SigGetPids(s, pidsOk)
    \/ \E s \in Signals, killOk \in BOOLEAN : SigKill(s, killOk)
    \/ \E s \in Signals, thawOk \in BOOLEAN : SigThaw(s, thawOk)

DestroySandbox ==
    \/ \E d \in Destroys :
          is_allowed("DestroySandboxRequest", ds, d, <<cr, rm, wt, sg, oo, cl, io>>,
                     DestroyBegin(d))
    \/ \E d \in Destroys : DestroyLock(d)
    \/ \E d \in Destroys, destroyOk \in BOOLEAN, recvAlive \in BOOLEAN :
          DestroyRun(d, destroyOk, recvAlive)

GetOOMEvent ==
    \/ \E o \in OomCalls :
          is_allowed("GetOOMEventRequest", oo, o, <<cr, rm, wt, sg, ds, cl, io>>, OomLock(o))
    \/ \E o \in OomCalls : OomMutex(o)
    \/ \E o \in OomCalls : OomRecv(o)

close_stdin ==
    \E c \in Closes, cid \in ReqCids, eid \in ReqEids :
        is_allowed("CloseStdinRequest", cl, c, <<cr, rm, wt, sg, ds, oo, io>>,
                   CloseStdin(c, cid, eid))

\* tty_win_resize, write_stdin, read_stdout and read_stderr, and what the
\* processes do to their streams.
Stream ==
    \/ \E i \in Ios, cid \in ReqCids, eid \in ReqEids, ioctlOk \in BOOLEAN :
          is_allowed("TtyWinResizeRequest", io, i, <<cr, rm, wt, sg, ds, oo, cl>>,
                     TtyWinResize(i, cid, eid, ioctlOk))
    \/ \E i \in Ios, cid \in ReqCids, eid \in ReqEids, len \in 0..MaxLen :
          is_allowed("WriteStreamRequest", io, i, <<cr, rm, wt, sg, ds, oo, cl>>,
                     WriteLookup(i, cid, eid, len))
    \/ \E i \in Ios, ok \in BOOLEAN : WriteAll(i, ok)
    \/ \E i \in Ios, cid \in ReqCids, eid \in ReqEids, stdout \in BOOLEAN,
          len \in 0..MaxLen :
          is_allowed("ReadStreamRequest", io, i, <<cr, rm, wt, sg, ds, oo, cl>>,
                     ReadLookup(i, cid, eid, stdout, len))
    \/ \E i \in Ios, notified \in BOOLEAN, readOk \in BOOLEAN :
          ReadSelect(i, notified, readOk)
    \/ \E t \in 1..MaxProcs : Hangup(t)
    \/ \E t \in 1..MaxProcs, rd \in {"out", "err"}, close \in BOOLEAN :
          StreamData(t, rd, close)

Next ==
    \/ Stream
    \/ Create \/ RemoveSync \/ RemoveTimed \/ Exec \/ Exit \/ Wait \/ Signal
    \/ DestroySandbox \/ GetOOMEvent \/ OomEvent \/ close_stdin
    \/ \E cid \in ReqCids, pid \in Pids : ExitChange(cid, pid)

Spec == Init /\ [][Next]_vars

\* The container lifecycle alone.
NextLife == Create \/ RemoveSync \/ RemoveTimed

SpecLife == Init /\ [][NextLife]_vars

\* The container lifecycle with up to MaxRaceRemoves RemoveContainer calls,
\* of either kind, in flight together.
NextRace ==
    \/ Create
    \/ \E r \in 1..MaxRaceRemoves, cid \in ReqCids :
          is_allowed("RemoveContainerRequest", rm, r, <<cr, wt, sg, ds, oo, cl, io>>,
                     RemoveSyncLock(r, cid))
    \/ \E r \in 1..MaxRaceRemoves, destroyOk \in BOOLEAN : RemoveSyncDestroy(r, destroyOk)
    \/ \E r \in 1..MaxRaceRemoves, relOk \in BOOLEAN : RemoveSyncResources(r, relOk)
    \/ \E r \in 1..MaxRaceRemoves, cid \in ReqCids :
          is_allowed("RemoveContainerRequest", rm, r, <<cr, wt, sg, ds, oo, cl, io>>,
                     RemoveTimedSpawn(r, cid))
    \/ \E r \in 1..MaxRaceRemoves : DestroyTaskLock(r)
    \/ \E r \in 1..MaxRaceRemoves, destroyOk \in BOOLEAN : DestroyTaskRun(r, destroyOk)
    \/ \E r \in 1..MaxRaceRemoves : RemoveTimeout(r)
    \/ \E r \in 1..MaxRaceRemoves : RemoveJoin(r)
    \/ \E r \in 1..MaxRaceRemoves, relOk \in BOOLEAN : RemoveFinalize(r, relOk)

SpecRace == Init /\ [][NextRace]_vars

InitCid ==
    /\ InitRegistry
    /\ vid \in CidStrings
    /\ vres = "none"
    /\ allowed = Endpoints
    /\ tio = [i \in 1..MaxProcs |-> NewTio(FALSE, TRUE)]

SpecCid == InitCid /\ [][VerifyCid]_vars

(***************************************************************************)
(* append_guest_hooks (rpc.rs:1698-1708).  An Option is a sequence of at   *)
(* most one element; Hooks is a record of three lists of hooks.            *)
(***************************************************************************)
\* append_guest_hooks that puts the guest hooks first.
append_guest_hooks_first(s_hooks, oci_hooks) ==
    IF s_hooks = <<>> THEN oci_hooks
    ELSE LET guest_hooks == s_hooks[1]
             hooks == IF oci_hooks = <<>>
                      THEN [prestart |-> <<>>, poststart |-> <<>>, poststop |-> <<>>]
                      ELSE oci_hooks[1]
         IN  <<[prestart |-> guest_hooks.prestart \o hooks.prestart,
                poststart |-> guest_hooks.poststart \o hooks.poststart,
                poststop |-> guest_hooks.poststop \o hooks.poststop]>>

\* The value of oci.hooks after append_guest_hooks(s, oci):
\* take().unwrap_or_default(), Vec::append of the clones, Some(hooks).
append_guest_hooks(s_hooks, oci_hooks) ==
    IF s_hooks = <<>> THEN oci_hooks
    ELSE LET guest_hooks == s_hooks[1]
             hooks == IF oci_hooks = <<>>
                      THEN [prestart |-> <<>>, poststart |-> <<>>, poststop |-> <<>>]
                      ELSE oci_hooks[1]
         IN  <<[prestart |-> hooks.prestart \o guest_hooks.prestart,
                poststart |-> hooks.poststart \o guest_hooks.poststart,
                poststop |-> hooks.poststop \o guest_hooks.poststop]>>

\* One call: oci.hooks is changed in place; `old` keeps what it was.
AppendGuestHooks ==
    /\ ~vid.done
    /\ vid' = [vid EXCEPT !.oci = append_guest_hooks(vid.s, vid.oci), !.done = TRUE]
    /\ UNCHANGED <<containers, container_mounts, storages, lock, cr, rm, wt,
                   nextInst, nextCInst, pinfo, vres, sg, frozen, sbx>>

\* Sandbox.hooks and the spec's hooks are None or lists of at most MaxHooks
\* prestart hooks and one poststart and poststop hook.
InitHooks ==
    /\ InitRegistry
    /\ vres = "none"
    /\ allowed = Endpoints
    /\ tio = [i \in 1..MaxProcs |-> NewTio(FALSE, TRUE)]
    /\ LET Lists(n) == UNION {[1..m -> {"foo", "bar"}] : m \in 0..n}
           OptHooks == {<<>>} \cup {<<h>> : h \in [prestart : Lists(MaxHooks),
                                                   poststart : Lists(1),
                                                   poststop : Lists(1)]}
       IN  vid \in {[s |-> a, oci |-> b, old |-> b, done |-> FALSE] :
                       a \in OptHooks, b \in OptHooks}

SpecHooks == InitHooks /\ [][AppendGuestHooks]_vars

(***************************************************************************)
(* get_memory_info (rpc.rs:1485-1529).  A path is known by what reading    *)
(* it gives: "ok" with the content, "missing" (NotFound, ENOENT) or        *)
(* "denied" (any other error).                                             *)
(***************************************************************************)
\* get_memory_info that parses the content as read.
get_memory_info_untrimmed(block_size, hotplug, file, probe) ==
    LET parsed == from_str_radix(file.v)
        size == IF block_size /\ file.state = "ok" THEN parsed.val ELSE 0
    IN
    IF block_size /\ file.state = "ok" /\ (file.v = <<>> \/ ~parsed.ok)
    THEN [kind |-> "err", size |-> 0, plug |-> FALSE, err |-> "Invalid block size"]
    ELSE IF block_size /\ file.state = "denied"
    THEN [kind |-> "err", size |-> 0, plug |-> FALSE, err |-> "io"]
    ELSE IF hotplug /\ probe = "denied"
    THEN [kind |-> "err", size |-> 0, plug |-> FALSE, err |-> "io"]
    ELSE [kind |-> "ok", size |-> size, plug |-> hotplug /\ probe = "ok", err |-> ""]

\* read_to_string and the checks on it, then stat on the probe path.
\* str::trim drops the white space at both ends.
get_memory_info(block_size, hotplug, file, probe) ==
    LET RECURSIVE trim(_)
        trim(v) == IF v = <<>> THEN v
                   ELSE IF Head(v) \in WhiteSpace THEN trim(Tail(v))
                   ELSE IF v[Len(v)] \in WhiteSpace THEN trim(SubSeq(v, 1, Len(v) - 1))
                   ELSE v
        parsed == from_str_radix(trim(file.v))
        size == IF block_size /\ file.state = "ok" THEN parsed.val ELSE 0
    IN
    IF block_size /\ file.state = "ok" /\ (file.v = <<>> \/ ~parsed.ok)
    THEN [kind |-> "err", size |-> 0, plug |-> FALSE, err |-> "Invalid block size"]
    ELSE IF block_size /\ file.state = "denied"
    THEN [kind |-> "err", size |-> 0, plug |-> FALSE, err |-> "io"]
    ELSE IF hotplug /\ probe = "denied"
    THEN [kind |-> "err", size |-> 0, plug |-> FALSE, err |-> "io"]
    ELSE [kind |-> "ok", size |-> size, plug |-> hotplug /\ probe = "ok", err |-> ""]

\* One call.
GetMemoryInfo ==
    /\ vid.out.kind = "none"
    /\ vid' = [vid EXCEPT !.out = get_memory_info(vid.block_size, vid.hotplug,
                                                  vid.file, vid.probe)]
    /\ UNCHANGED <<containers, container_mounts, storages, lock, cr, rm, wt,
                   nextInst, nextCInst, pinfo, vres, sg, frozen, sbx>>

\* The two flags, a block-size file of at most MaxFileLen characters and
\* the probe path, as test_get_memory_info varies them.
InitMem ==
    /\ InitRegistry
    /\ vres = "none"
    /\ allowed = Endpoints
    /\ tio = [i \in 1..MaxProcs |-> NewTio(FALSE, TRUE)]
    /\ LET Contents == UNION {[1..n -> {"1", "f", "g"} \cup WhiteSpace] :
                                 n \in 0..MaxFileLen}
           Files == {[state |-> "ok", v |-> v] : v \in Contents}
                    \cup {[state |-> st, v |-> <<>>] : st \in {"missing", "denied"}}
       IN  vid \in {[block_size |-> b, hotplug |-> h, file |-> f, probe |-> p,
                      out |-> [kind |-> "none", size |-> 0, plug |-> FALSE, err |-> ""]] :
                       b \in BOOLEAN, h \in BOOLEAN, f \in Files,
                       p \in {"ok", "missing", "denied"}}

SpecMem == InitMem /\ [][GetMemoryInfo]_vars

(***************************************************************************)
(* merge_oci_process (rpc.rs:151-162).                                     *)
(***************************************************************************)
\* merge_oci_process that takes the source's args whatever the target has.
merge_oci_process_overwrite(target, source) ==
    [args |-> source.args,
     cwd |-> IF target.cwd = "" /\ source.cwd # "" THEN source.cwd ELSE target.cwd,
     env |-> target.env \o source.env]

merge_oci_process(target, source) ==
    [args |-> IF target.args = <<>> /\ source.args # <<>>
              THEN target.args \o source.args ELSE target.args,
     cwd |-> IF target.cwd = "" /\ source.cwd # "" THEN source.cwd ELSE target.cwd,
     env |-> target.env \o source.env]

\* One call: target is changed in place; `old` keeps what it was.
MergeOciProcess ==
    /\ ~vid.done
    /\ vid' = [vid EXCEPT !.target = merge_oci_process(vid.target, vid.source),
                          !.done = TRUE]
    /\ UNCHANGED <<containers, container_mounts, storages, lock, cr, rm, wt,
                   nextInst, nextCInst, pinfo, vres, sg, frozen, sbx>>

\* Two processes with at most one argument, an empty or set cwd and at most
\* MaxHooks environment entries.
InitMerge ==
    /\ InitRegistry
    /\ vres = "none"
    /\ allowed = Endpoints
    /\ tio = [i \in 1..MaxProcs |-> NewTio(FALSE, TRUE)]
    /\ LET Lists(n, S) == UNION {[1..m -> S] : m \in 0..n}
           Procs == [args : Lists(1, {"sh", "ls"}),
                     cwd : {"", "/", "/tmp"},
                     env : Lists(MaxHooks, {"A=1", "B=2"})]
       IN  vid \in {[target |-> t, source |-> q, old |-> t, done |-> FALSE] :
                       t \in Procs, q \in Procs}

SpecMerge == InitMerge /\ [][MergeOciProcess]_vars

(***************************************************************************)
(* update_container_namespaces (rpc.rs:1655-1696).  spec.linux is None     *)
(* (<<>>) or a list of namespaces; sandbox.sandbox_pidns is None (<<>>) or *)
(* a namespace path.                                                       *)
(***************************************************************************)
update_container_namespaces(sandbox, linux, sandbox_pidns) ==
    IF linux = <<>>
    THEN [ok |-> FALSE, linux |-> linux]
    ELSE LET ns == linux[1]
             rewritten == [i \in DOMAIN ns |->
                              IF ns[i].type = "ipc"
                              THEN [ns[i] EXCEPT !.path = sandbox.shared_ipcns]
                              ELSE IF ns[i].type = "uts"
                              THEN [ns[i] EXCEPT !.path = sandbox.shared_utsns]
                              ELSE ns[i]]
         IN  IF sandbox_pidns /\ sandbox.sandbox_pidns = <<>>
             THEN [ok |-> FALSE, linux |-> <<rewritten>>]
             ELSE [ok |-> TRUE,
                   linux |-> <<Append(rewritten,
                                      [type |-> "pid",
                                       path |-> IF sandbox_pidns
                                                THEN sandbox.sandbox_pidns[1]
                                                ELSE ""])>>]

\* One call: spec.linux is changed in place.
UpdateContainerNamespaces ==
    /\ vid.res = "none"
    /\ LET r == update_container_namespaces(vid.sandbox, vid.linux, vid.flag)
       IN  vid' = [vid EXCEPT !.linux = r.linux,
                              !.res = IF r.ok THEN "ok" ELSE "err"]
    /\ UNCHANGED <<containers, container_mounts, storages, lock, cr, rm, wt,
                   nextInst, nextCInst, pinfo, vres, sg, frozen, sbx>>

\* A spec without a linux section or with up to MaxNs namespaces that have
\* no path or a path of their own, a sandbox with or without a PID
\* namespace, and the request's flag.
InitNs ==
    /\ InitRegistry
    /\ vres = "none"
    /\ allowed = Endpoints
    /\ tio = [i \in 1..MaxProcs |-> NewTio(FALSE, TRUE)]
    /\ LET Ns == [type : {"ipc", "uts", "pid", "network"}, path : {"", "/proc/7/ns"}]
           Linux == {<<>>} \cup {<<l>> : l \in UNION {[1..n -> Ns] : n \in 0..MaxNs}}
       IN  vid \in {[sandbox |-> [shared_ipcns |-> "/var/run/sandbox-ns/ipc",
                                  shared_utsns |-> "/var/run/sandbox-ns/uts",
                                  sandbox_pidns |-> p],
                      linux |-> l, flag |-> f, res |-> "none"] :
                       p \in {<<>>, <<"/proc/1/ns/pid">>}, l \in Linux, f \in BOOLEAN}

SpecNs == InitNs /\ [][UpdateContainerNamespaces]_vars

(***************************************************************************)
(* do_copy_file (rpc.rs:1782-1834).  A path is known by whether it lies    *)
(* under CONTAINER_BASE and by its extension; the files of the model share *)
(* directory and stem.  fs gives each path's size, -1 when it is absent;   *)
(* set holds the paths whose mode and owner were set.                      *)
(***************************************************************************)
do_copy_file(fs, set, req) ==
    IF ~req.path.base \/ ~req.ioOk
    THEN [fs |-> fs, set |-> set, res |-> "err", st_size |-> -1]
    ELSE LET tmpfile == [req.path EXCEPT !.ext = "tmp"]        \* set_extension("tmp")
             old == IF fs[tmpfile] < 0 THEN 0 ELSE fs[tmpfile]  \* create, no truncate
             st_size == IF req.offset + req.len > old /\ req.len > 0
                        THEN req.offset + req.len ELSE old       \* write_all_at
             written == [fs EXCEPT ![tmpfile] = st_size]
         IN  IF st_size # req.file_size
             THEN [fs |-> written, set |-> set, res |-> "ok", st_size |-> st_size]
             ELSE [fs |-> IF tmpfile = req.path THEN written
                          ELSE [written EXCEPT ![req.path] = st_size, ![tmpfile] = -1],
                   set |-> (set \ {tmpfile}) \cup {req.path},
                   res |-> "ok", st_size |-> st_size]

\* One CopyFile request; `last` keeps the request and what it returned.
CopyFile ==
    /\ vid.n < MaxChunks
    /\ \E path \in DOMAIN vid.fs, offset \in 0..(MaxFileLen - 1), len \in 0..MaxLen,
          file_size \in 0..MaxFileLen, ioOk \in BOOLEAN :
          LET req == [path |-> path, offset |-> offset, len |-> len,
                      file_size |-> file_size, ioOk |-> ioOk]
              r == do_copy_file(vid.fs, vid.set, req)
          IN  /\ offset + len <= MaxFileLen
              /\ vid' = [fs |-> r.fs, set |-> r.set, n |-> vid.n + 1,
                         last |-> [path |-> path, file_size |-> file_size,
                                   res |-> r.res, st_size |-> r.st_size]]
    /\ UNCHANGED <<containers, container_mounts, storages, lock, cr, rm, wt,
                   nextInst, nextCInst, pinfo, vres, sg, frozen, sbx>>

\* No file exists; the paths are one outside CONTAINER_BASE and, under it,
\* one without extension, one with another extension and one ending in .tmp.
InitCopy ==
    /\ InitRegistry
    /\ vres = "none"
    /\ allowed = Endpoints
    /\ tio = [i \in 1..MaxProcs |-> NewTio(FALSE, TRUE)]
    /\ LET Paths == {[base |-> FALSE, ext |-> "txt"]}
                    \cup [base : {TRUE}, ext : {"", "txt", "tmp"}]
       IN  vid = [fs |-> [q \in Paths |-> -1], set |-> {}, n |-> 0,
                  last |-> [path |-> [base |-> FALSE, ext |-> "txt"], file_size |-> 0,
                            res |-> "none", st_size |-> -1]]

SpecCopy == InitCopy /\ [][CopyFile]_vars

\* CreateContainer with every string as the container id.
SpecIds == InitCid /\ [][Create]_vars

\* The process table and the exit synchronisation, with containers created
\* but never removed.
NextProc == Create \/ Exec \/ Exit \/ Wait

SpecProc == Init /\ [][NextProc]_vars

\* The same with RemoveContainer (timeout 0) interleaved.
NextWait == NextProc \/ RemoveSync

SpecWait == Init /\ [][NextWait]_vars

\* Processes whose exit-change channel may carry a value before it is closed.
NextChange == NextProc \/ \E cid \in ReqCids, pid \in Pids : ExitChange(cid, pid)

SpecChange == Init /\ [][NextChange]_vars

\* SignalProcess against containers that are created, run processes and are
\* removed (timeout 0).
NextSignal == Create \/ Exec \/ Exit \/ RemoveSync \/ Signal

SpecSignal == Init /\ [][NextSignal]_vars

\* A client that creates containers and then makes one call: a step that
\* starts a call finds every other kind of call unused and no create running.
Solo ==
    LET Quiet == /\ \A k \in Creates : cr[k].pc \in {"idle", "done"}
                 /\ \A r \in Removes : rm[r] = IdleRemove
                 /\ \A w \in Waiters : wt[w] = IdleWait
                 /\ \A s \in Signals : sg[s] = IdleSignal
                 /\ \A d \in Destroys : ds[d] = IdleDestroy
                 /\ \A o \in OomCalls : oo[o] = IdleOom
        Starts == \/ \E k \in Creates : cr[k].pc = "idle" /\ cr'[k].pc # "idle"
                  \/ \E r \in Removes : rm[r].pc = "idle" /\ rm'[r].pc # "idle"
                  \/ \E w \in Waiters : wt[w].pc = "idle" /\ wt'[w].pc # "idle"
                  \/ \E s \in Signals : sg[s].pc = "idle" /\ sg'[s].pc # "idle"
                  \/ \E d \in Destroys : ds[d].pc = "idle" /\ ds'[d].pc # "idle"
                  \/ \E o \in OomCalls : oo[o].pc = "idle" /\ oo'[o].pc # "idle"
    IN  Starts => Quiet

\* Every handler, each call running each of its paths alone.
NextSolo ==
    \/ Create /\ Solo
    \/ RemoveSync /\ Solo
    \/ RemoveTimed /\ Solo
    \/ Exec
    \/ Exit
    \/ Wait /\ Solo
    \/ Signal /\ Solo
    \/ DestroySandbox /\ Solo
    \/ GetOOMEvent /\ Solo
    \/ OomEvent

SpecSolo == Init /\ [][NextSolo]_vars

\* CloseStdin on the processes of containers that are created and removed.
NextStdin == Create \/ Exec \/ Exit \/ RemoveSync \/ close_stdin

SpecStdin == Init /\ [][NextStdin]_vars

\* The streams of the processes of created containers, with and without a
\* terminal and a stdout pipe.
InitStream ==
    /\ InitRegistry
    /\ vid = <<>>
    /\ vres = "none"
    /\ allowed = Endpoints
    /\ tio \in {[i \in 1..MaxProcs |-> NewTio(term, stdout)] :
                   term \in BOOLEAN, stdout \in BOOLEAN}

NextStream == Create \/ Stream

SpecStream == InitStream /\ [][NextStream]_vars

\* Three configurations: every endpoint allowed, CreateContainer alone, none.
InitPolicy ==
    /\ InitRegistry
    /\ vid = <<>>
    /\ vres = "none"
    /\ allowed \in {Endpoints, {"CreateContainerRequest"}, {}}
    /\ tio = [i \in 1..MaxProcs |-> NewTio(FALSE, TRUE)]

\* Every handler under each of these configurations.
SpecPolicy == InitPolicy /\ [][NextSolo]_vars

\* The sandbox's shutdown and its OOM events, with containers created.
NextSandbox == Create \/ DestroySandbox \/ GetOOMEvent \/ OomEvent

SpecSandbox == Init /\ [][NextSandbox]_vars

\* The same where a handler that can take a step eventually takes one; no
\* OOM event has to arrive.
SpecSandboxFair ==
    SpecSandbox /\ WF_vars(Create) /\ WF_vars(DestroySandbox) /\ WF_vars(GetOOMEvent)

(***************************************************************************)
(* Exit synchronisation.                                                   *)
(***************************************************************************)
\* The calls that registered a watcher on process identity i and returned.
ReturnedOn(i) == {w \in Waiters : wt[w].pc = "done" /\ wt[w].reg = i}

\* C1: when two or more WaitProcess calls registered on the same process
\* (all before it was reaped) have returned, each returned the process's
\* recorded exit code and cleanup_process_stream ran exactly once on it.
C1_SameCodeOneCleanup ==
    \A i \in DOMAIN pinfo :
        Cardinality(ReturnedOn(i)) >= 2 =>
            /\ \A w \in ReturnedOn(i) : wt[w].res = OkRes(pinfo[i].code)
            /\ pinfo[i].cleanups = 1

C3_ReturnsExitCode ==
    \A w \in Waiters :
        (wt[w].pc = "done" /\ wt[w].reg # 0 /\ pinfo[wt[w].reg].exited)
            => wt[w].res = OkRes(pinfo[wt[w].reg].code)

\* C4: WaitProcess removes a process entry only after the runtime recorded
\* its exit (never a running one), and removes it at most once.
C4_ReapOnlyExited ==
    \A i \in DOMAIN pinfo : pinfo[i].reaps <= 1 /\ ~pinfo[i].reapedRunning

(***************************************************************************)
(* verify_cid.                                                             *)
(***************************************************************************)
\* The grammar as the claim and the comment at rpc.rs:127-130 state it, over
\* characters.
CidGrammar(id) ==
    /\ Len(id) >= 2
    /\ is_alphanumeric(id[1])
    /\ \A i \in 2..Len(id) : is_alphanumeric(id[i]) \/ id[i] \in {".", "-", "_"}

\* C5: verify_cid(s) succeeds iff s has at least 2 characters, the first
\* alphanumeric, the others alphanumeric or one of . - _
C5_VerifyIffGrammar ==
    vres # "none" => (vres = "ok" <=> CidGrammar(vid))

(***************************************************************************)
(* Container lifecycle.                                                    *)
(***************************************************************************)
\* C6: a RemoveContainer with timeout > 0 whose destroy task has not signaled
\* can always take the timer's return; when it returns in that state it
\* returns ETIME in that very step, which changes neither the registry nor
\* the lock nor the spawned task; and the spawned task can still run on.
C6_TimeoutWithoutWaiting ==
    /\ [][\A r \in Removes :
            (rm[r].pc = "racing" /\ rm[r].tx = "pending" /\ rm'[r].pc # "racing")
                => /\ rm'[r].pc = "done"
                   /\ rm'[r].res = ErrRes("ETIME")
                   /\ rm'[r].bg = rm[r].bg
                   /\ rm[r].bg \in {"spawned", "destroying"}
                   /\ UNCHANGED <<containers, container_mounts, storages, lock>>]_vars
    /\ [](\A r \in Removes :
            /\ (rm[r].pc = "racing" /\ rm[r].tx = "pending") => ENABLED RemoveTimeout(r)
            /\ (rm[r].res = ErrRes("ETIME") /\ rm[r].bg = "spawned" /\ lock = Free)
                  => ENABLED DestroyTaskLock(r)
            /\ (rm[r].res = ErrRes("ETIME") /\ rm[r].bg = "destroying")
                  => ENABLED DestroyTaskRun(r, TRUE))

\* The timer fired while the destroy task held the lock, and the task then
\* finished the destroy.
C6_Witness ==
    \E r \in Removes :
        /\ rm[r].res = ErrRes("ETIME")
        /\ rm[r].bg = "panicked"
        /\ rm[r].cid \in DOMAIN containers
        /\ containers[rm[r].cid].destroyed

\* C7: a RemoveContainer with timeout 0 holds the lock from the lookup to its
\* return; meanwhile no other step changes the registry; and it returns
\* success only from the state after the destroy, having run unwatch,
\* destroy, release, evict in this order, with the id in neither map.
C7_SyncRemoveAtomic ==
    /\ [](\A r \in Removes :
            rm[r].pc \in {"destroying", "destroyed"} => lock = <<"rm", r>>)
    /\ [][\A r \in Removes :
            /\ (rm[r].pc \in {"destroying", "destroyed"} /\ rm'[r] = rm[r])
                  => UNCHANGED <<containers, container_mounts, storages>>
            /\ (~rm'[r].timed /\ rm[r].pc # "done" /\ rm'[r].pc = "done"
                   /\ rm'[r].res.kind = "ok")
                  => /\ rm[r].pc = "destroyed"
                     /\ containers[rm[r].cid].destroyed
                     /\ rm'[r].log = <<"unwatch", "destroy", "release", "evict">>
                     /\ storages' = release_storages(storages, cmounts(rm[r].cid))
                     /\ rm[r].cid \notin DOMAIN containers'
                     /\ rm[r].cid \notin DOMAIN container_mounts']_vars

C7_Witness ==
    \E r \in Removes :
        /\ ~rm[r].timed
        /\ rm[r].res = OkRes(0)
        /\ rm[r].log = <<"unwatch", "destroy", "release", "evict">>
        /\ rm[r].cid \notin DOMAIN containers
        /\ storages = EmptyMap
        /\ \E k \in Creates : cr[k].res = OkRes(0)

\* C8: a container object leaves Sandbox.containers, by removal or by
\* replacement, only after its destroy completed and in a step that releases
\* its recorded mounts.
C8_LeavesOnlyDestroyed ==
    [][\A c \in DOMAIN containers :
          (c \notin DOMAIN containers' \/ containers'[c].inst # containers[c].inst)
              => /\ containers[c].destroyed
                 /\ storages' = release_storages(storages, cmounts(c))]_vars

\* C9: a CreateContainer step changes Sandbox.containers only when it returns
\* success from the state after the runtime's start; a step that returns an
\* error leaves Sandbox.containers unchanged.
C9_InsertAfterStart ==
    [][\A k \in Creates :
          cr'[k] # cr[k] =>
              /\ containers' # containers
                    => (cr[k].pc = "started" /\ cr'[k].res = OkRes(0))
              /\ cr'[k].res.kind = "err" => containers' = containers]_vars

\* A create that failed after the runtime's start, the registry left empty.
C9_Witness ==
    \E k \in Creates : cr[k].res = ErrRes("pidns") /\ containers = EmptyMap

(***************************************************************************)
(* SignalProcess.                                                          *)
(***************************************************************************)
\* C10: a SignalProcess with an empty exec id against an existing container
\* returns success, having tried every pid enumerated from the cgroup and
\* having thawed the cgroup, whatever deliveries failed.
C10_SignalAllSucceeds ==
    \A s \in Signals :
        (sg[s].pc = "done" /\ sg[s].eid = EmptyEid /\ sg[s].target # 0)
            => /\ sg[s].res = OkRes(0)
               /\ sg[s].tried = sg[s].enumerated
               /\ sg[s].thaw # "none"

\* C11: the signal SignalProcess delivers to the process it found is SIGKILL
\* when SIGTERM was requested for an init process whose signal-catch mask
\* lacks the SIGTERM bit, and the requested signal in every other case.
C11_EscalationOnlyUnhandled ==
    \A s \in Signals :
        sg[s].target # 0 =>
            sg[s].sig = IF sg[s].tinit /\ sg[s].req = SIGTERM
                              /\ ~HasSigBit(sg[s].mask, SIGTERM)
                        THEN SIGKILL ELSE sg[s].req

(***************************************************************************)
(* DestroySandbox and GetOOMEvent.                                         *)
(***************************************************************************)
\* C12: at most one DestroySandbox call succeeds, the shutdown signal is sent
\* at most once, and a call that takes the lock after the sender was taken
\* fails.
C12_DestroySingleUse ==
    /\ Cardinality({d \in Destroys : ds[d].res.kind = "ok"}) <= 1
    /\ shutdowns <= 1
    /\ \A d \in Destroys : (ds[d].pc = "done" /\ ds[d].late) => ds[d].res.kind = "err"

\* One call succeeded and a later one, whose destroy also went through, failed
\* for want of the sender.
C12_Witness ==
    \E d1, d2 \in Destroys :
        /\ ds[d1].res = OkRes(0)
        /\ ds[d2].late
        /\ ds[d2].res = ErrRes("sender")
        /\ shutdowns = 1

\* C13: a GetOOMEvent call that is pending when a DestroySandbox call has
\* arrived eventually returns (unless that DestroySandbox call fails in the
\* runtime's destroy).
C13_PendingPollsReturn ==
    \A o \in OomCalls : \A d \in Destroys :
        (oo[o].pc \in {"mutex", "recv"} /\ ds[d].pc = "locking")
            ~> (oo[o].pc = "done" \/ ds[d].res = ErrRes("destroy"))

\* C14: no call holds the registry lock while it is suspended on the
\* exit-change receiver, on the timed destroy's channel and timer, on an OOM
\* event, or on the mutex of the OOM receiver.
C14_NoBlockingUnderLock ==
    /\ \A w \in Waiters : wt[w].pc = "waiting" => lock # <<"wt", w>>
    /\ \A r \in Removes : rm[r].pc = "racing" => lock # <<"rm", r>>
    /\ \A o \in OomCalls : oo[o].pc = "recv" => lock # <<"oo", o>>
    /\ \A o \in OomCalls : (oo[o].pc = "mutex" /\ event_rx # 0) => lock # <<"oo", o>>

(***************************************************************************)
(* The registry lock.                                                      *)
(***************************************************************************)
\* The tasks whose next step is a lock().await on the registry.
Acquiring ==
    {<<"cr", k>> : k \in {j \in Creates : cr[j].pc \in {"idle", "mounted"}}}
    \cup {<<"rm", r>> : r \in {j \in Removes : rm[j].pc \in {"idle", "finalize"}}}
    \cup {<<"bg", r>> : r \in {j \in Removes : rm[j].bg = "spawned"}}
    \cup {<<"wt", w>> : w \in {j \in Waiters : wt[j].pc \in {"idle", "relock"}}}
    \cup {<<"sg", s>> : s \in {j \in Signals : sg[j].pc \in {"idle", "freeze", "get_pids", "kill"}}}
    \cup {<<"ds", d>> : d \in {j \in Destroys : ds[j].pc \in {"idle", "locking"}}}
    \cup {<<"oo", o>> : o \in {j \in OomCalls : oo[j].pc = "idle"}}

C16_NoWaitOnRuntimeWork ==
    /\ \A k \in Creates : \A r \in Removes : \A cid \in ReqCids :
          (cr[k].pc = "starting" /\ cid # cr[k].cid /\ MayStart(rm, r))
              => ENABLED RemoveSyncLock(r, cid)
    /\ \A r \in Removes : \A k \in Creates :
          ((rm[r].pc = "destroying" \/ rm[r].bg = "destroying")
              /\ cr[k].pc = "mounted" /\ cr[k].cid # rm[r].cid)
              => ENABLED CreateLock(k, TRUE)

(***************************************************************************)
(* The allow-list.                                                         *)
(***************************************************************************)
\* C17: a call whose endpoint is not allowed returns UNIMPLEMENTED in its
\* first step, and that step changes neither the lock nor the sandbox state.
C17_BlockedIsUnimplemented ==
    [][LET Blocked(name, slots, k) ==
               /\ name \notin allowed
               /\ slots[k].pc = "idle"
               /\ slots'[k].pc # "idle"
           Rejected(slots, k) ==
               /\ slots'[k] = [slots[k] EXCEPT !.pc = "done", !.res = ErrRes("UNIMPLEMENTED")]
               /\ UNCHANGED <<containers, container_mounts, storages, lock, nextInst,
                              nextCInst, pinfo, frozen, sender, event_tx, shutdowns,
                              event_rx, events, allowed>>
       IN  /\ \A k \in Creates :
                Blocked("CreateContainerRequest", cr, k) => Rejected(cr, k)
           /\ \A r \in Removes :
                Blocked("RemoveContainerRequest", rm, r) => Rejected(rm, r)
           /\ \A w \in Waiters :
                Blocked("WaitProcessRequest", wt, w) => Rejected(wt, w)
           /\ \A s \in Signals :
                Blocked("SignalProcessRequest", sg, s) => Rejected(sg, s)
           /\ \A d \in Destroys :
                Blocked("DestroySandboxRequest", ds, d) => Rejected(ds, d)
           /\ \A o \in OomCalls :
                Blocked("GetOOMEventRequest", oo, o) => Rejected(oo, o)
           /\ "ExecProcessRequest" \notin allowed =>
                \A i \in DOMAIN pinfo' \ DOMAIN pinfo : pinfo'[i].eid = EmptyEid
      ]_vars

\* A RemoveContainer that was refused with a container in the registry.
C17_Witness ==
    \E r \in Removes :
        /\ "RemoveContainerRequest" \notin allowed
        /\ rm[r].pc = "done"
        /\ rm[r].res = ErrRes("UNIMPLEMENTED")
        /\ containers # EmptyMap

(***************************************************************************)
(* CloseStdin.                                                             *)
(***************************************************************************)
\* C20: a CloseStdin call that finds its process in the registry succeeds,
\* and when an earlier CloseStdin call reached the same process it leaves
\* the registry as it found it.
C20_CloseStdinIdempotent ==
    [][\A c \in Closes :
          (cl[c].pc = "idle" /\ cl'[c].pc = "done" /\ cl'[c].target # 0) =>
              /\ cl'[c].res = OkRes(0)
              /\ (\E b \in Closes : cl[b].pc = "done" /\ cl[b].target = cl'[c].target)
                     => containers' = containers
      ]_vars

\* Two CloseStdin calls on the same process, both done.
C20_Witness ==
    \E b, c \in Closes :
        /\ b # c
        /\ cl[b].pc = "done" /\ cl[c].pc = "done"
        /\ cl[b].target # 0
        /\ cl[b].target = cl[c].target
        /\ cl[b].res = OkRes(0) /\ cl[c].res = OkRes(0)

(***************************************************************************)
(* Status codes.                                                           *)
(***************************************************************************)
\* C18: a call that named a container or process absent from the registry
\* returned INVALID_ARGUMENT.
C18_AbsentIdInvalidArgument ==
    /\ \A r \in Removes :
          rm[r].res = ErrRes("Invalid container id")
              => ttrpc_code(rm[r].res) = "INVALID_ARGUMENT"
    /\ \A s \in Signals :
          (sg[s].pc = "done" /\ sg[s].target = 0 /\ sg[s].res # ErrRes("UNIMPLEMENTED"))
              => ttrpc_code(sg[s].res) = "INVALID_ARGUMENT"
    /\ \A w \in Waiters :
          wt[w].res \in {ErrRes("lookup"), ErrRes("Invalid container id")}
              => ttrpc_code(wt[w].res) = "INVALID_ARGUMENT"
    /\ \A c \in Closes :
          (cl[c].pc = "done" /\ cl[c].target = 0 /\ cl[c].res # ErrRes("UNIMPLEMENTED"))
              => ttrpc_code(cl[c].res) = "INVALID_ARGUMENT"

\* C19: a CreateContainer request with a malformed container id or without
\* an OCI spec fails with INVALID_ARGUMENT and leaves the registry, the
\* mounts and the storages as they were.
C19_ValidationInvalidArgument ==
    [][\A k \in Creates :
          (/\ cr[k].pc = "idle"
           /\ cr'[k].pc = "done"
           /\ cr'[k].res \in {ErrRes("invalid container ID"), ErrRes("EINVAL")})
              => /\ ttrpc_code(cr'[k].res) = "INVALID_ARGUMENT"
                 /\ UNCHANGED <<containers, container_mounts, storages, lock>>
      ]_vars

(***************************************************************************)
(* Process streams.                                                        *)
(***************************************************************************)
\* C21: a ResizeTTY call that found its process fails with UNAVAILABLE when
\* the process has no terminal master, and the window-size operations issued
\* on a process are those of the calls that found a terminal master on it:
\* none on a process without one.
C21_ResizeNeedsTerminal ==
    /\ \A i \in Ios :
          (io[i].op = "resize" /\ io[i].pc = "done" /\ io[i].target # 0
             /\ ~tio[io[i].target].term_master)
              => ttrpc_code(io[i].res) = "UNAVAILABLE"
    /\ \A t \in 1..MaxProcs :
          tio[t].winsz = Cardinality({i \in Ios : /\ io[i].op = "resize"
                                                  /\ io[i].pc = "done"
                                                  /\ io[i].target = t
                                                  /\ tio[t].term_master})

\* A ResizeTTY refused on a registered process without a terminal.
C21_Witness ==
    \E i \in Ios :
        /\ io[i].op = "resize" /\ io[i].pc = "done" /\ io[i].target # 0
        /\ ~tio[io[i].target].term_master
        /\ io[i].res = ErrRes("UNAVAILABLE")
        /\ tio[io[i].target].winsz = 0

\* C22: the bytes of a WriteStdin call go to the terminal master when the
\* process has one and to the stdin pipe otherwise; the bytes of one call are
\* contiguous in the stream; a successful call returns the length of its
\* buffer, all of which was written.
C22_WritesWholeBufferExclusively ==
    /\ \A t \in 1..MaxProcs : \A a, b, c \in DOMAIN tio[t].out :
          /\ tio[t].out[a][2] = tio[t].term_master
          /\ (a < b /\ b < c /\ tio[t].out[a][1] = tio[t].out[c][1])
                => tio[t].out[b][1] = tio[t].out[a][1]
    /\ \A i \in Ios :
          (io[i].op = "write" /\ io[i].pc = "done" /\ io[i].res.kind = "ok")
              => /\ io[i].res.code = io[i].len
                 /\ Cardinality({a \in DOMAIN tio[io[i].target].out :
                                    tio[io[i].target].out[a][1] = i}) = io[i].len

\* Two WriteStdin calls on one process, each of two bytes, both done.
C22_Witness ==
    \E i, j \in Ios :
        /\ i # j
        /\ io[i].op = "write" /\ io[j].op = "write"
        /\ io[i].target = io[j].target
        /\ io[i].res = OkRes(MaxLen) /\ io[j].res = OkRes(MaxLen)

\* C23: a read call waiting on a process with a terminal is not left
\* blocked once the terminal has hung up: its notified() is ready (or its
\* read is).
C23_HangupEndsRead ==
    \A i \in Ios :
        (/\ io[i].op = "read" /\ io[i].pc = "select"
         /\ io[i].tty
         /\ tio[io[i].target].hung)
            => \/ tio[io[i].target].permit
               \/ tio[io[i].target].avail[io[i].rd] > 0
               \/ tio[io[i].target].eof

\* C24: a successful read returns between 1 and len bytes, taken from the
\* reader in one read; a stdout read on a process with neither a terminal
\* nor a stdout pipe fails.
C24_ReadOneBoundedChunk ==
    [][\A i \in Ios :
          /\ (io[i].pc = "select" /\ io'[i].pc = "done" /\ io'[i].res.kind = "ok")
                => /\ io'[i].res.code >= 1
                   /\ io'[i].res.code <= io[i].len
                   /\ tio'[io[i].target].avail[io[i].rd]
                         = tio[io[i].target].avail[io[i].rd] - io'[i].res.code
          /\ (/\ io[i].pc = "idle" /\ io'[i].op = "read" /\ io'[i].rd = "out"
              /\ io'[i].target # 0
              /\ ~tio[io'[i].target].term_master
              /\ ~tio[io'[i].target].parent_stdout)
                => io'[i].res.kind = "err"
      ]_vars

\* A read of one byte where two were ready, and a refused stdout read.
C24_Witness ==
    \E i, j \in Ios :
        /\ io[i].op = "read" /\ io[i].len = 1 /\ io[i].res = OkRes(1)
        /\ tio[io[i].target].avail[io[i].rd] = 1
        /\ io[j].op = "read" /\ io[j].res = ErrRes("read meet eof")

(***************************************************************************)
(* Container ids.                                                          *)
(***************************************************************************)
\* C25: every container id in Sandbox.containers matches the grammar
\* ^[a-zA-Z0-9][a-zA-Z0-9_.-]+$.
C25_RegistryIdsMatchGrammar == \A cid \in DOMAIN containers : CidGrammar(cid)

(***************************************************************************)
(* append_guest_hooks.                                                     *)
(***************************************************************************)
\* C26: after append_guest_hooks each list of the spec's hooks is what it
\* was, followed by the sandbox's guest hooks of that kind in their order;
\* a spec without hooks ends with the sandbox's hooks, and without guest
\* hooks (Sandbox.hooks is None) the spec's hooks are unchanged.
C26_GuestHooksAppended ==
    vid.done =>
        IF vid.s = <<>> THEN vid.oci = vid.old
        ELSE /\ vid.oci # <<>>
             /\ \A kind \in {"prestart", "poststart", "poststop"} :
                   LET was == IF vid.old = <<>> THEN <<>> ELSE vid.old[1][kind]
                       guest == vid.s[1][kind]
                       now == vid.oci[1][kind]
                   IN  /\ Len(now) = Len(was) + Len(guest)
                       /\ \A n \in 1..Len(was) : now[n] = was[n]
                       /\ \A n \in 1..Len(guest) : now[Len(was) + n] = guest[n]
             /\ vid.old = <<>> => vid.oci = vid.s

\* Guest hooks "bar", "foo" appended to a spec that had "foo", "bar".
C26_Witness ==
    /\ vid.done
    /\ vid.s # <<>> /\ vid.s[1].prestart = <<"bar", "foo">>
    /\ vid.old # <<>> /\ vid.old[1].prestart = <<"foo", "bar">>
    /\ vid.oci[1].prestart = <<"foo", "bar", "bar", "foo">>

(***************************************************************************)
(* get_memory_info.                                                        *)
(***************************************************************************)
\* C27: the size is 0 when the block size is not requested or its file is
\* missing; when the file was read, the result is the value of the
\* hexadecimal digits that its content holds between white space, and the
\* error "Invalid block size" when the content is empty or is not such
\* digits; the hotplug flag of a result is true iff hotplug was requested
\* and the probe path exists.
C27_MemoryInfo ==
    LET v == vid.file.v
        Spans == {ab \in (1..Len(v)) \X (1..Len(v)) :
                     /\ ab[1] <= ab[2]
                     /\ \A n \in 1..Len(v) :
                           IF ab[1] <= n /\ n <= ab[2] THEN v[n] \in Range(HexChars)
                           ELSE v[n] \in WhiteSpace}
        Digits == {SubSeq(v, ab[1], ab[2]) : ab \in Spans}
    IN
    vid.out.kind # "none" =>
        /\ (~vid.block_size \/ vid.file.state = "missing")
              => (vid.out.kind = "ok" => vid.out.size = 0)
        /\ (vid.block_size /\ vid.file.state = "ok") =>
              IF Digits = {}
              THEN vid.out.kind = "err" /\ vid.out.err = "Invalid block size"
              ELSE vid.out.kind = "ok" => \E d \in Digits : vid.out.size = HexValue(d)
        /\ (vid.block_size /\ vid.file.state = "ok" /\ Digits # {}
              /\ ~(vid.hotplug /\ vid.probe = "denied")) => vid.out.kind = "ok"
        /\ vid.out.kind = "ok" => (vid.out.plug <=> (vid.hotplug /\ vid.probe = "ok"))

\* The content "1f" and a newline gives 31, with the probe path present.
C27_Witness ==
    /\ vid.file = [state |-> "ok", v |-> <<"1", "f", "\n">>]
    /\ vid.out = [kind |-> "ok", size |-> 31, plug |-> TRUE, err |-> ""]

\* C28: a waiter that holds an exit-change receiver resumes as soon as the
\* receiver reports one change or is closed: whenever a waiter is at step 2 and
\* its receiver has a change to report, the waiter can leave the wait.
C28_ResumesOnFirstChange ==
    \A w \in Waiters :
        (wt[w].pc = "waiting" /\ pinfo[wt[w].rx].changed) => ENABLED WaitExitSignal(w)

\* C29: a WaitProcess call that re-acquires the registry lock and finds its pid
\* absent from the container's process table completes in that step: with the
\* value at the head of its own watcher channel when one was sent, with the
\* error "Failed to receive exit code" when the channel holds nothing (its
\* sender is gone by then); it is never left blocked on the channel.
C29_LostRaceReceivesOrFails ==
    [][\A w \in Waiters :
          (/\ wt[w].pc = "relock"
           /\ wt'[w].pc # "relock"
           /\ wt[w].cid \in DOMAIN containers
           /\ wt[w].pid \notin DOMAIN containers[wt[w].cid].procs)
          => /\ wt'[w].pc = "done"
             /\ wt'[w].res = IF wt[w].ch # <<>>
                             THEN OkRes(Head(wt[w].ch))
                             ELSE ErrRes("Failed to receive exit code")]_vars

\* A call has lost the reap race on a container that is still registered and
\* found its channel closed and empty: the process it registered on was
\* dropped without being reaped.
C29_Witness ==
    \E w \in Waiters :
        /\ wt[w].pc = "done"
        /\ wt[w].reg # 0
        /\ wt[w].got = 0
        /\ pinfo[wt[w].reg].cid \in DOMAIN containers
        /\ pinfo[wt[w].reg].reaps = 0
        /\ wt[w].res = ErrRes("Failed to receive exit code")

\* C30: when the destroy task of a timed RemoveContainer fails before the
\* deadline (destroy returns an error, the task panics and drops tx while the
\* caller still waits), the failing step finds the container registered and
\* leaves it, its mount records and the storages as they are, and the caller's
\* next step ends the call with the error UnknownErrno and removes nothing
\* from the registry either.
C30_FailedDestroyKeepsContainer ==
    [][\A r \in Removes :
          /\ (rm[r].pc = "racing" /\ rm[r].bg = "destroying" /\ rm'[r].bg = "panicked")
             => /\ rm[r].cid \in DOMAIN containers'
                /\ UNCHANGED <<containers, container_mounts, storages>>
          /\ (/\ rm[r].pc = "racing"
              /\ rm[r].bg = "panicked"
              /\ rm[r].tx = "dropped"
              /\ rm'[r].pc # "racing")
             => /\ rm'[r].pc = "done"
                /\ rm'[r].res = ErrRes("UnknownErrno")
                /\ UNCHANGED <<containers, container_mounts, storages>>]_vars

\* A timed removal has returned UnknownErrno after its task's destroy failed;
\* the container is registered, not destroyed, and keeps its mount record.
C30_Witness ==
    \E r \in Removes :
        /\ rm[r].pc = "done"
        /\ rm[r].timed
        /\ rm[r].bg = "panicked"
        /\ rm[r].tx = "dropped"
        /\ rm[r].res = ErrRes("UnknownErrno")
        /\ rm[r].cid \in DOMAIN containers
        /\ ~containers[rm[r].cid].destroyed
        /\ rm[r].cid \in DOMAIN container_mounts
        /\ container_mounts[rm[r].cid] # <<>>

\* C31: after merge_oci_process(target, source), target.args is source.args
\* when target.args was empty and what it was otherwise, target.cwd is
\* source.cwd when target.cwd was empty and what it was otherwise, and
\* target.env is the old target.env followed by source.env.
C31_MergeFillsEmptyAppendsEnv ==
    vid.done
    => /\ vid.target.args = IF vid.old.args = <<>> THEN vid.source.args ELSE vid.old.args
       /\ vid.target.cwd = IF vid.old.cwd = "" THEN vid.source.cwd ELSE vid.old.cwd
       /\ vid.target.env = vid.old.env \o vid.source.env

\* A merge into a target that has args but no cwd, from a source with both,
\* and with environment entries on both sides.
C31_Witness ==
    /\ vid.done
    /\ vid.old = [args |-> <<"sh">>, cwd |-> "", env |-> <<"A=1">>]
    /\ vid.source = [args |-> <<"ls">>, cwd |-> "/tmp", env |-> <<"B=2", "A=1">>]
    /\ vid.target = [args |-> <<"sh">>, cwd |-> "/tmp", env |-> <<"A=1", "B=2", "A=1">>]

\* C32: after a successful update_container_namespaces every IPC and UTS
\* namespace entry of the spec carries the sandbox's shared namespace path,
\* and every PID namespace entry carries the sandbox's PID namespace path
\* when a shared PID namespace was asked for and an empty path otherwise.
C32_NamespacesShared ==
    vid.res = "ok"
    => \A i \in DOMAIN vid.linux[1] :
          LET n == vid.linux[1][i] IN
          /\ n.type = "ipc" => n.path = vid.sandbox.shared_ipcns
          /\ n.type = "uts" => n.path = vid.sandbox.shared_utsns
          /\ n.type = "pid" => n.path = IF vid.flag THEN vid.sandbox.sandbox_pidns[1] ELSE ""

\* C33: a CopyFile request to a destination path that does not exist brings
\* it into existence only when, after its write, the temporary file's size
\* equals the declared file_size, and then with mode and owner set; a request
\* that wrote its chunk and left the size different returns success and
\* leaves the destination absent.
C33_DestinationAppearsOnLastChunk ==
    [][(vid'.n = vid.n + 1 /\ vid.fs[vid'.last.path] < 0)
       => LET dest == vid'.last.path
              last == vid'.last
          IN  /\ vid'.fs[dest] >= 0
                 => /\ last.res = "ok"
                    /\ last.st_size = last.file_size
                    /\ dest \in vid'.set
              /\ (last.st_size >= 0 /\ last.st_size # last.file_size)
                 => /\ last.res = "ok"
                    /\ vid'.fs[dest] < 0]_vars

\* C34: a RemoveContainer call that ends while its container id is not in
\* the registry, and whose lookup (the call's own for timeout 0, its task's
\* for timeout > 0) found no container, ends with an error and leaves
\* containers, container_mounts and storages unchanged.
C34_AbsentIdFailsUnchanged ==
    [][\A r \in Removes :
          (/\ rm[r].pc # "done"
           /\ rm'[r].pc = "done"
           /\ rm'[r].cid \notin DOMAIN containers
           /\ rm[r].timed => (rm[r].tx = "dropped" /\ rm[r].bg = "done"))
          => /\ rm'[r].res.kind = "err"
             /\ UNCHANGED <<containers, container_mounts, storages>>]_vars

\* C35: a signal-all call whose freeze succeeded has attempted a thaw by the
\* time it returns, whichever way it returns.
C35_ThawAfterFreeze ==
    \A s \in Signals :
        (sg[s].pc = "done" /\ sg[s].eid = EmptyEid /\ sg[s].froze = "ok")
            => sg[s].thaw # "none"

\* C36: in signal-all mode the signal number passed to kill for the
\* enumerated pids is the signal number of the request.
C36_SignalAllKeepsSignal ==
    \A s \in Signals :
        (sg[s].eid = EmptyEid /\ sg[s].pc = "kill") => sg[s].sig = sg[s].req

\* C37: from a signal-all call's successful freeze to the end of its pid
\* iteration the container stays in the registry and its cgroup stays frozen.
C37_FrozenUntilIterated ==
    \A s \in Signals :
        (sg[s].froze = "ok" /\ sg[s].pc \in {"get_pids", "kill"})
            => /\ sg[s].cid \in DOMAIN containers
               /\ containers[sg[s].cid].inst \in frozen

\* C38: the process entry a WaitProcess call cleans up, reports and removes
\* is the entry on which it registered its watcher, never another process
\* that has come to stand under the same pid.
C38_ReapsOwnEntryOnly ==
    \A w \in Waiters : wt[w].got # 0 => wt[w].got = wt[w].reg

\* C39: the runtime's destroy runs at most once on a registered container:
\* no two RemoveContainer calls on the same container have both had their
\* destroy complete on it.
C39_DestroyAtMostOnce ==
    \A r1, r2 \in 1..MaxRaceRemoves :
        (/\ r1 # r2
         /\ rm[r1].cid = rm[r2].cid
         /\ "destroy" \in Range(rm[r1].log))
        => "destroy" \notin Range(rm[r2].log)

\* C40: whenever no CreateContainer call is in progress, every key of
\* container_mounts is a key of containers.
C40_MountRecordsHaveContainers ==
    (\A k \in Creates : cr[k].pc \in {"idle", "done"})
        => DOMAIN container_mounts \subseteq DOMAIN containers

=============================================================================
